---- MODULE Spec2Model ----
(***************************************************************************)
(* Model of the hxr_analysis payload pipeline: the path resolver, the      *)
(* identifier computer, the structural transforms (split / merge), the     *)
(* background-subtraction operator and the peak-detection operator.        *)
(*                                                                         *)
(* Python objects are modelled on an explicit heap: every dict and every   *)
(* list (numeric arrays included) is a heap cell with its own address, so  *)
(* that copy.copy / copy.deepcopy / in-place writes and the aliasing they  *)
(* leave behind are what the code makes them.  Floats are modelled as      *)
(* exact rationals (rounding error is outside the model).                  *)
(***************************************************************************)
EXTENDS Integers, Sequences, FiniteSets, TLC

VARIABLES
  heap,    \* the objects: heap[a] is the dict or list at address a
  pool,    \* the payloads a caller holds (references to their root dicts)
  last,    \* the last operator call: its arguments, its result, the heap before it
  clock,   \* the number of calls made, also datetime.utcnow()
  numpy,   \* whether np_compat found the real numpy (TRUE) or uses its fallback
  store,   \* PayloadStore.payloads: the entries of the registry's dict
  calls    \* history: the calls made on the registry, oldest first

vars == <<heap, pool, last, clock, numpy, store, calls>>

(***************************************************************************)
(* Exact rational arithmetic standing for Python float arithmetic.         *)
(***************************************************************************)
Abs(n) == IF n < 0 THEN -n ELSE n

RECURSIVE GCD(_, _)
GCD(a, b) == IF b = 0 THEN a ELSE GCD(b, a % b)

Q(n, d) ==
  LET g == GCD(Abs(n), Abs(d))
      s == IF d < 0 THEN -1 ELSE 1
  IN [t |-> "num", n |-> (s * n) \div g, d |-> (s * d) \div g]

N(n) == [t |-> "num", n |-> n, d |-> 1]

RAdd(a, b) == Q(a.n * b.d + b.n * a.d, a.d * b.d)
RSub(a, b) == Q(a.n * b.d - b.n * a.d, a.d * b.d)
RMul(a, b) == Q(a.n * b.n, a.d * b.d)
RDiv(a, b) == Q(a.n * b.d, a.d * b.n)
RNeg(a) == [a EXCEPT !.n = -a.n]
RLt(a, b) == a.n * b.d < b.n * a.d
RLe(a, b) == a.n * b.d <= b.n * a.d
RAbs(a) == [a EXCEPT !.n = Abs(a.n)]

(***************************************************************************)
(* Python values.  Scalars are carried by value; dicts and lists are       *)
(* references into the heap.                                               *)
(***************************************************************************)
None == [t |-> "none"]
Str(s) == [t |-> "str", s |-> s]
IntV(n) == [t |-> "int", n |-> n]
Ref(a) == [t |-> "ref", a |-> a]
Rec(r) == [t |-> "rec", r |-> r]

DictCell(e) == [t |-> "dict", e |-> e]
ListCell(e) == [t |-> "list", e |-> e]

IsDict(h, v) == v.t = "ref" /\ h[v.a].t = "dict"
IsList(h, v) == v.t = "ref" /\ h[v.a].t = "list"

\* Allocation of a fresh object.
New(h, cell) == [h |-> Append(h, cell), v |-> Ref(Len(h) + 1)]

\* dict primitives on a cell's entry sequence (insertion ordered)
Keys(e) == [i \in 1..Len(e) |-> e[i].k]
HasKey(e, k) == \E i \in 1..Len(e) : e[i].k = k
GetKey(e, k) == e[CHOOSE i \in 1..Len(e) : e[i].k = k].v
PutKey(e, k, v) ==
  IF HasKey(e, k)
  THEN [i \in 1..Len(e) |-> IF e[i].k = k THEN [k |-> k, v |-> v] ELSE e[i]]
  ELSE Append(e, [k |-> k, v |-> v])

\* d[k] = v on the dict object at address a
SetItem(h, a, k, v) == [h EXCEPT ![a].e = PutKey(h[a].e, k, v)]

\* the structural value of v: what == compares, references followed
RECURSIVE Deref(_, _)
Deref(h, v) ==
  IF v.t # "ref" THEN v
  ELSE LET c == h[v.a]
       IN IF c.t = "dict"
          THEN [t |-> "dict",
                e |-> [i \in 1..Len(c.e) |-> [k |-> c.e[i].k, v |-> Deref(h, c.e[i].v)]]]
          ELSE [t |-> "list", e |-> [i \in 1..Len(c.e) |-> Deref(h, c.e[i])]]

\* the addresses reachable from v
RECURSIVE Reach(_, _)
Reach(h, v) ==
  IF v.t # "ref" THEN {}
  ELSE LET c == h[v.a]
       IN {v.a} \cup UNION { Reach(h, IF c.t = "dict" THEN c.e[i].v ELSE c.e[i]) : i \in 1..Len(c.e) }

\* copy.copy: a new top-level object holding the same children
ShallowCopy(h, v) == IF v.t # "ref" THEN [h |-> h, v |-> v] ELSE New(h, h[v.a])

\* copy.deepcopy on tree-shaped values (no object is referenced twice
\* inside one payload, so deepcopy's memo never fires)
RECURSIVE DeepCopy(_, _), DeepCopyItems(_, _, _)
DeepCopy(h, v) ==
  IF v.t # "ref" THEN [h |-> h, v |-> v]
  ELSE LET c == h[v.a]
           r == DeepCopyItems(h, c.e, c.t)
       IN New(r.h, [t |-> c.t, e |-> r.e])

DeepCopyItems(h, e, t) ==
  IF e = <<>> THEN [h |-> h, e |-> <<>>]
  ELSE LET c1 == DeepCopy(h, IF t = "dict" THEN Head(e).v ELSE Head(e))
           rest == DeepCopyItems(c1.h, Tail(e), t)
       IN [h |-> rest.h,
           e |-> <<IF t = "dict" THEN [k |-> Head(e).k, v |-> c1.v] ELSE c1.v>> \o rest.e]

(***************************************************************************)
(* Results of calls: err = "none" on normal return, otherwise the name of  *)
(* the exception raised.  h is the heap the call leaves behind.            *)
(***************************************************************************)
Ok(h, v) == [h |-> h, v |-> v, err |-> "none"]
Raise(h, e) == [h |-> h, v |-> None, err |-> e]

\* an exception with the parts of its message
RaiseMsg(h, e, msg) == [h |-> h, v |-> None, err |-> e, msg |-> msg]
MsgOf(r) == IF "msg" \in DOMAIN r THEN r.msg ELSE <<>>

(***************************************************************************)
(* Path Resolver (waveform_display/path.py)                                *)
(***************************************************************************)
Ch(s, i) == SubSeq(s, i, i)

Whitespace == {" ", "\t", "\n"}

RECURSIVE Strip(_)
Strip(s) ==
  IF s = "" THEN s
  ELSE IF Ch(s, 1) \in Whitespace THEN Strip(SubSeq(s, 2, Len(s)))
  ELSE IF Ch(s, Len(s)) \in Whitespace THEN Strip(SubSeq(s, 1, Len(s) - 1))
  ELSE s

\* path.find(c, i): the first position >= i holding c, 0 when there is none
Find(s, c, i) ==
  IF \E j \in i..Len(s) : Ch(s, j) = c
  THEN CHOOSE j \in i..Len(s) : Ch(s, j) = c /\ \A m \in i..(j - 1) : Ch(s, m) # c
  ELSE 0

\* the end of a bare segment: the first position >= i holding "." or "[",
\* Len(s) + 1 when there is none
SegmentEnd(s, i) ==
  CHOOSE j \in i..(Len(s) + 1) :
    /\ (j = Len(s) + 1 \/ Ch(s, j) \in {".", "["})
    /\ \A m \in i..(j - 1) : Ch(s, m) \notin {".", "["}

RECURSIVE ParseFrom(_, _, _)

\* a parser that does not look at the character after a closing bracket
ParseFromAnyAfterBracket(path, i, tokens) ==
  LET n == Len(path)
      syntaxError == [err |-> "PathResolutionError", tokens |-> <<>>]
  IN IF i > n THEN [err |-> "none", tokens |-> tokens]
     ELSE IF Ch(path, i) = "."
     THEN IF i + 1 > n THEN syntaxError ELSE ParseFrom(path, i + 1, tokens)
     ELSE IF Ch(path, i) = "["
     THEN LET end == Find(path, "]", i)
              content == Strip(SubSeq(path, i + 1, end - 1))
          IN IF end = 0 THEN syntaxError
             ELSE IF \/ Len(content) < 2
                     \/ Ch(content, 1) \notin {"\"", "'"}
                     \/ Ch(content, Len(content)) # Ch(content, 1)
             THEN syntaxError
             ELSE ParseFrom(path, end + 1,
                            Append(tokens, SubSeq(content, 2, Len(content) - 1)))
     ELSE LET stop == SegmentEnd(path, i)
              token == SubSeq(path, i, stop - 1)
          IN IF token = "" THEN syntaxError
             ELSE ParseFrom(path, stop, Append(tokens, token))

ParseFrom(path, i, tokens) ==
  LET n == Len(path)
      syntaxError == [err |-> "PathResolutionError", tokens |-> <<>>]
  IN IF i > n THEN [err |-> "none", tokens |-> tokens]
     ELSE IF Ch(path, i) = "."
     THEN IF i + 1 > n THEN syntaxError ELSE ParseFrom(path, i + 1, tokens)
     ELSE IF Ch(path, i) = "["
     THEN LET end == Find(path, "]", i)
              content == Strip(SubSeq(path, i + 1, end - 1))
          IN IF end = 0 THEN syntaxError
             ELSE IF \/ Len(content) < 2
                     \/ Ch(content, 1) \notin {"\"", "'"}
                     \/ Ch(content, Len(content)) # Ch(content, 1)
             THEN syntaxError
             ELSE IF end + 1 <= n /\ Ch(path, end + 1) \notin {".", "["}
             THEN syntaxError
             ELSE ParseFrom(path, end + 1,
                            Append(tokens, SubSeq(content, 2, Len(content) - 1)))
     ELSE LET stop == SegmentEnd(path, i)
              token == SubSeq(path, i, stop - 1)
          IN IF token = "" THEN syntaxError
             ELSE ParseFrom(path, stop, Append(tokens, token))

_parse_path(path) ==
  IF path = "" \/ Strip(path) = ""
  THEN [err |-> "PathResolutionError", tokens |-> <<>>]
  ELSE ParseFrom(path, 1, <<>>)

\* joiner.join(parts)
RECURSIVE Join(_, _)
Join(joiner, parts) ==
  IF parts = <<>> THEN ""
  ELSE IF Len(parts) = 1 THEN parts[1]
  ELSE parts[1] \o joiner \o Join(joiner, Tail(parts))

\* type(value).__name__
TypeName(h, v) ==
  IF v.t = "ref" THEN h[v.a].t
  ELSE IF v.t = "none" THEN "NoneType"
  ELSE v.t

RECURSIVE Walk(_, _, _, _)

\* a walk that reads a missing key as None, as dict.get does
WalkGet(h, current, p, traversed) ==
  IF p.err # "none" THEN Raise(h, p.err)
  ELSE IF p.tokens = <<>> THEN Ok(h, current)
  ELSE IF ~IsDict(h, current)
  THEN RaiseMsg(h, "PathResolutionError",
                <<"Cannot traverse into", Head(p.tokens), "because object at",
                  Join("/", traversed), "is of type", TypeName(h, current)>>)
  ELSE IF ~HasKey(h[current.a].e, Head(p.tokens))
  THEN Walk(h, None, [p EXCEPT !.tokens = Tail(@)], Append(traversed, Head(p.tokens)))
  ELSE Walk(h, GetKey(h[current.a].e, Head(p.tokens)), [p EXCEPT !.tokens = Tail(@)],
            Append(traversed, Head(p.tokens)))

\* the walk of resolve_path, lines 51-64, over the parsed path p; traversed
\* holds the tokens already walked, traversed[:-1] of the source
Walk(h, current, p, traversed) ==
  IF p.err # "none" THEN Raise(h, p.err)
  ELSE IF p.tokens = <<>> THEN Ok(h, current)
  ELSE IF ~IsDict(h, current)
  THEN RaiseMsg(h, "PathResolutionError",
                <<"Cannot traverse into", Head(p.tokens), "because object at",
                  Join("/", traversed), "is of type", TypeName(h, current)>>)
  ELSE IF ~HasKey(h[current.a].e, Head(p.tokens))
  THEN RaiseMsg(h, "PathResolutionError",
                <<"Missing key", Head(p.tokens), "after traversing", Join("/", traversed)>>)
  ELSE Walk(h, GetKey(h[current.a].e, Head(p.tokens)), [p EXCEPT !.tokens = Tail(@)],
            Append(traversed, Head(p.tokens)))

resolve_path(h, payload, path) == Walk(h, payload, _parse_path(path), <<>>)

(***************************************************************************)
(* Identifier Computer (transform/core.py, transform/spec.py)              *)
(***************************************************************************)
IdSpec(id_paths) ==
  [id_paths |-> id_paths, fallback |-> "payload", joiner |-> "__", sanitize |-> TRUE]

AllowedChars == "ABCDEFGHIJKLMNOPQRSTUVWXYZabcdefghijklmnopqrstuvwxyz0123456789_.-"
AllowedSet == { Ch(AllowedChars, i) : i \in 1..Len(AllowedChars) }

\* _SANITIZE_PATTERN.sub("_", part): every maximal run of characters
\* outside the allowed set becomes one "_"
RECURSIVE SubRuns(_, _)
SubRuns(s, inRun) ==
  IF s = "" THEN ""
  ELSE IF Ch(s, 1) \in AllowedSet
  THEN Ch(s, 1) \o SubRuns(SubSeq(s, 2, Len(s)), FALSE)
  ELSE (IF inRun THEN "" ELSE "_") \o SubRuns(SubSeq(s, 2, Len(s)), TRUE)

RECURSIVE StripUnderscore(_)
StripUnderscore(s) ==
  IF s = "" THEN s
  ELSE IF Ch(s, 1) = "_" THEN StripUnderscore(SubSeq(s, 2, Len(s)))
  ELSE IF Ch(s, Len(s)) = "_" THEN StripUnderscore(SubSeq(s, 1, Len(s) - 1))
  ELSE s

\* a sanitizer whose pattern lacks the "+": one "_" per character replaced
RECURSIVE SubEach(_)
SubEach(s) ==
  IF s = "" THEN ""
  ELSE (IF Ch(s, 1) \in AllowedSet THEN Ch(s, 1) ELSE "_") \o SubEach(SubSeq(s, 2, Len(s)))

SanitizeEachCharacter(part) ==
  LET s == StripUnderscore(SubEach(part))
  IN IF s = "" THEN "part" ELSE s

_sanitize_part(part) ==
  LET s == StripUnderscore(SubRuns(part, FALSE))
  IN IF s = "" THEN "part" ELSE s

\* str(value) for the scalar kinds payload metadata holds
PyStr(v) ==
  IF v.t = "str" THEN v.s
  ELSE IF v.t = "int" THEN ToString(v.n)
  ELSE "<object>"


\* lines 27-32: what one id path contributes; r is the path's resolution
PartOf(r) == IF r.err # "none" \/ r.v.t = "none" THEN <<>> ELSE <<PyStr(r.v)>>

\* the parts collected in a set, which forgets the order of id_paths
RECURSIVE SetToSeq(_)
SetToSeq(S) ==
  IF S = {} THEN <<>>
  ELSE LET x == CHOOSE y \in S : TRUE IN <<x>> \o SetToSeq(S \ {x})

ResolvedPartsUnordered(h, payload, id_paths) ==
  SetToSeq({ PartOf(resolve_path(h, payload, id_paths[i]))[1] :
             i \in { j \in 1..Len(id_paths) :
                       PartOf(resolve_path(h, payload, id_paths[j])) # <<>> } })

RECURSIVE ResolvedParts(_, _, _)
ResolvedParts(h, payload, id_paths) ==
  IF id_paths = <<>> THEN <<>>
  ELSE PartOf(resolve_path(h, payload, Head(id_paths)))
         \o ResolvedParts(h, payload, Tail(id_paths))

\* lines 33-38: fallback, sanitizing and joining of the parts found
JoinParts(id_spec, found) ==
  LET parts == IF found = <<>> THEN <<id_spec.fallback>> ELSE found
  IN Join(id_spec.joiner,
          [i \in 1..Len(parts) |->
             IF id_spec.sanitize THEN _sanitize_part(parts[i]) ELSE parts[i]])

compute_identifier(h, payload, id_spec) ==
  JoinParts(id_spec, ResolvedParts(h, payload, id_spec.id_paths))

(***************************************************************************)
(* Object primitives shared by the operators                               *)
(***************************************************************************)
\* d.setdefault(k, {}) on the dict at address a
SetDefaultDict(h, a, k) ==
  IF HasKey(h[a].e, k) THEN [h |-> h, v |-> GetKey(h[a].e, k)]
  ELSE LET d == New(h, DictCell(<<>>)) IN [h |-> SetItem(d.h, a, k, d.v), v |-> d.v]

\* d.get(k) on a value known to be a dict
GetOrNone(h, d, k) == IF HasKey(h[d.a].e, k) THEN GetKey(h[d.a].e, k) ELSE None

\* Python truthiness of the scalar kinds metadata holds
Truthy(v) ==
  IF v.t = "none" THEN FALSE
  ELSE IF v.t = "str" THEN v.s # ""
  ELSE IF v.t = "int" THEN v.n # 0
  ELSE TRUE

\* the contents of a numeric array object
Arr(h, v) == h[v.a].e

(***************************************************************************)
(* Background subtraction (preprocessing/background_subtract.py)           *)
(***************************************************************************)
\* the loop of _clone_with_set, lines 82-100, writing into the object `current`
RECURSIVE SetInPlace(_, _, _, _)
SetInPlace(h, current, tokens, value) ==
  IF ~IsDict(h, current) THEN Raise(h, "PathResolutionError")
  ELSE IF Len(tokens) = 1 THEN Ok(SetItem(h, current.a, tokens[1], value), current)
  ELSE LET token == Head(tokens)
       IN IF ~HasKey(h[current.a].e, token)
          THEN LET d == New(h, DictCell(<<>>))
               IN SetInPlace(SetItem(d.h, current.a, token, d.v), d.v, Tail(tokens), value)
          ELSE IF ~IsDict(h, GetKey(h[current.a].e, token))
          THEN Raise(h, "PathResolutionError")
          ELSE SetInPlace(h, GetKey(h[current.a].e, token), Tail(tokens), value)

\* a _clone_with_set that forgets the deepcopy and writes into its argument
CloneWithSetNoCopy(h, source, tokens, value) ==
  LET r == SetInPlace(h, source, tokens, value)
  IN IF r.err # "none" THEN r ELSE Ok(r.h, source)

_clone_with_set_bg(h, source, tokens, value) ==
  LET c == DeepCopy(h, source)
      r == SetInPlace(c.h, c.v, tokens, value)
  IN IF r.err # "none" THEN r ELSE Ok(r.h, c.v)

UidPaths == <<"meta.file", "meta.shot", "meta.scope">>

\* an _ensure_uid that recomputes the identifier even when one is present
EnsureUidAlwaysCompute(h, payload) ==
  LET m == SetDefaultDict(h, payload.a, "meta")
      uid == Str(compute_identifier(m.h, payload, IdSpec(UidPaths)))
  IN IF ~IsDict(m.h, m.v) THEN Raise(m.h, "TypeError")
     ELSE Ok(SetItem(m.h, m.v.a, "__uid__", uid), uid)

_ensure_uid(h, payload) ==
  LET m == SetDefaultDict(h, payload.a, "meta")
  IN IF ~IsDict(m.h, m.v) THEN Raise(m.h, "TypeError")
     ELSE IF ~HasKey(m.h[m.v.a].e, "__uid__")
     THEN LET uid == Str(compute_identifier(m.h, payload, IdSpec(UidPaths)))
          IN Ok(SetItem(m.h, m.v.a, "__uid__", uid), uid)
     ELSE Ok(m.h, GetKey(m.h[m.v.a].e, "__uid__"))

\* numpy broadcasting of two one-dimensional shapes
Broadcastable(a, b) == Len(a) = Len(b) \/ Len(a) = 1 \/ Len(b) = 1
BroadcastLen(a, b) == IF Len(a) = 1 THEN Len(b) ELSE Len(a)
At(a, i) == IF Len(a) = 1 THEN a[1] ELSE a[i]

\* np.allclose's tolerance atol + rtol * |b| with atol = 1e-8, rtol = 1e-5
AllcloseTol(b) == Q(b.d + 1000 * Abs(b.n), 100000000 * b.d)

_allclose(np, a, b) ==
  IF np /\ Broadcastable(a, b)
  THEN \A i \in 1..BroadcastLen(a, b) :
         RLe(RAbs(RSub(At(a, i), At(b, i))), AllcloseTol(At(b, i)))
  ELSE a = b

\* linear interpolation of (xp, fp) at xv, for Len(xp) >= 2: lines 61-76
InterpAt(xv, xp, fp) ==
  IF RLe(xv, xp[1]) THEN fp[1]
  ELSE IF RLe(xp[Len(xp)], xv) THEN fp[Len(fp)]
  ELSE LET i == CHOOSE j \in 2..Len(xp) :
                  RLe(xv, xp[j]) /\ \A m \in 2..(j - 1) : ~RLe(xv, xp[m])
       IN IF xp[i] = xp[i - 1] THEN fp[i - 1]
          ELSE RAdd(fp[i - 1],
                    RMul(RDiv(RSub(xv, xp[i - 1]), RSub(xp[i], xp[i - 1])),
                         RSub(fp[i], fp[i - 1])))

\* np.interp(x, xp, fp) for increasing xp: one value per element of x
NpInterp(x, xp, fp) ==
  IF Len(xp) # Len(fp) \/ Len(xp) = 0 THEN [err |-> "ValueError", a |-> <<>>]
  ELSE [err |-> "none",
        a |-> [i \in 1..Len(x) |-> IF Len(xp) = 1 THEN fp[1] ELSE InterpAt(x[i], xp, fp)]]

Min(a, b) == IF a < b THEN a ELSE b

\* the slice fp_list[:len(x_list)] of line 58 stops at the end of fp_list
_interp(np, x, xp, fp) ==
  IF np THEN NpInterp(x, xp, fp)
  ELSE IF Len(xp) # Len(fp) THEN [err |-> "ValueError", a |-> <<>>]
  ELSE IF Len(xp) < 2 THEN [err |-> "none", a |-> SubSeq(fp, 1, Min(Len(fp), Len(x)))]
  ELSE [err |-> "none", a |-> [i \in 1..Len(x) |-> InterpAt(x[i], xp, fp)]]

\* the list fallback of _scaled_subtract, lines 117-119: zip stops at the shorter
ZipSubtract(exp_values, bg_values, exp_scale, bg_scale) ==
  [i \in 1..Min(Len(exp_values), Len(bg_values)) |->
     RSub(RMul(exp_scale, exp_values[i]), RMul(bg_scale, bg_values[i]))]

_scaled_subtract(np, exp_values, bg_values, exp_scale, bg_scale) ==
  IF np /\ Broadcastable(exp_values, bg_values)
  THEN [i \in 1..BroadcastLen(exp_values, bg_values) |->
          RSub(RMul(exp_scale, At(exp_values, i)), RMul(bg_scale, At(bg_values, i)))]
  ELSE ZipSubtract(exp_values, bg_values, exp_scale, bg_scale)

\* a by_index match that stops one position short of the background's channels
MatchKeyOffByOne(params, idx, exp_key, bg_items) ==
  IF params.match_mode = "by_key" THEN [err |-> "none", none |-> FALSE, k |-> exp_key]
  ELSE IF params.match_mode = "by_index"
  THEN IF idx < Len(bg_items)
       THEN [err |-> "none", none |-> FALSE, k |-> bg_items[idx].k]
       ELSE [err |-> "none", none |-> TRUE, k |-> ""]
  ELSE [err |-> "ValueError", none |-> TRUE, k |-> ""]

\* lines 157-165: the background key matched with the idx-th experiment
\* channel; none = TRUE stands for match_key = None
MatchKey(params, idx, exp_key, bg_items) ==
  IF params.match_mode = "by_key" THEN [err |-> "none", none |-> FALSE, k |-> exp_key]
  ELSE IF params.match_mode = "by_index"
  THEN IF idx <= Len(bg_items)
       THEN [err |-> "none", none |-> FALSE, k |-> bg_items[idx].k]
       ELSE [err |-> "none", none |-> TRUE, k |-> ""]
  ELSE [err |-> "ValueError", none |-> TRUE, k |-> ""]

\* lines 173-177: the aligned background array subtracted from the
\* experiment channel; bg_arr is what the alignment returned
SubtractAligned(np, params, exp_values, bg_arr) ==
  IF bg_arr.err # "none" THEN [kind |-> "raise", err |-> bg_arr.err, y |-> <<>>]
  ELSE [kind |-> "value", err |-> "none",
        y |-> _scaled_subtract(np, exp_values, bg_arr.a, params.exp_scale, params.bg_scale)]

\* lines 157-177: what the loop body computes for the idx-th experiment
\* channel: an exception, a skip, or the subtracted array.  c holds what the
\* loop reads: exp_items, bg_items, t_exp, t_bg.
ChannelOutcome(h, np, params, c, idx) ==
  LET item == c.exp_items[idx]
      m == MatchKey(params, idx, item.k, c.bg_items)
  IN IF m.err # "none" THEN [kind |-> "raise", err |-> m.err, y |-> <<>>]
     ELSE IF m.none \/ ~HasKey(c.bg_items, m.k)
     THEN IF params.missing_channel_policy = "error"
          THEN [kind |-> "raise", err |-> "ValueError", y |-> <<>>]
          ELSE [kind |-> "skip", err |-> "none", y |-> <<>>]
     ELSE SubtractAligned(np, params, Arr(h, item.v),
            IF params.time_align = "interp_bg_to_exp"
            THEN _interp(np, c.t_exp, c.t_bg, Arr(h, GetKey(c.bg_items, m.k)))
            ELSE [err |-> "none", a |-> Arr(h, GetKey(c.bg_items, m.k))])

\* lines 156-179: the loop over the experiment channels, storing each
\* channel's outcome in result_channels
RECURSIVE ChannelLoop(_, _, _, _, _, _, _)
ChannelLoop(h, params, c, outcomes, idx, result, skipped) ==
  IF idx > Len(c.exp_items)
  THEN [h |-> h, err |-> "none", result |-> result, skipped |-> skipped]
  ELSE
    LET item == c.exp_items[idx]
        out_key == params.result_channel_prefix \o item.k
        cp == DeepCopy(h, item.v)
        y_out == New(h, ListCell(outcomes[idx].y))
    IN IF outcomes[idx].kind = "raise"
       THEN [h |-> h, err |-> outcomes[idx].err, result |-> result, skipped |-> skipped]
       ELSE IF outcomes[idx].kind = "skip"
       THEN ChannelLoop(cp.h, params, c, outcomes, idx + 1,
                        PutKey(result, out_key, cp.v), Append(skipped, Str(item.k)))
       ELSE ChannelLoop(y_out.h, params, c, outcomes, idx + 1,
                        PutKey(result, out_key, y_out.v), skipped)

\* The statements after the loop work on a frame f: the heap h, the
\* exception err raised so far ("none" when there is none), the new payload
\* v and, once computed, its uid.

\* line 181
WriteResult(params, exp_payload, loop, out_tokens) ==
  IF loop.err # "none" THEN Raise(loop.h, loop.err)
  ELSE IF out_tokens.err # "none" THEN Raise(loop.h, out_tokens.err)
  ELSE LET result_channels == New(loop.h, DictCell(loop.result))
       IN _clone_with_set_bg(result_channels.h, exp_payload, out_tokens.tokens,
                             result_channels.v)

\* a failed meta.setdefault("__original__", original) of line 190: the clone
\* raised because meta is no dict
SetDefaultFailed(r) == IF r.err = "PathResolutionError" THEN Raise(r.h, "AttributeError") ELSE r

\* lines 183-190: snapshot of the experiment's time and channels
StoreOriginal(f, params, c) ==
  IF f.err # "none" \/ ~params.store_original THEN f
  ELSE LET t == New(f.h, ListCell(c.t_exp))
           ch == DeepCopy(t.h, c.ch_exp)
           original == New(ch.h, DictCell(<<[k |-> "time", v |-> t.v],
                                            [k |-> "channels", v |-> ch.v]>>))
       IN SetDefaultFailed(_clone_with_set_bg(original.h, f.v, <<"meta", "__original__">>,
                                              original.v))

\* lines 192-193
OutUid(f, uid) ==
  IF uid.err # "none" THEN [h |-> uid.h, v |-> f.v, err |-> uid.err, uid |-> None]
  ELSE [h |-> uid.h, v |-> f.v, err |-> "none", uid |-> uid.v]

EnsureOutUid(f) ==
  IF f.err # "none" THEN [h |-> f.h, v |-> f.v, err |-> f.err, uid |-> None]
  ELSE OutUid(f, _ensure_uid(f.h, f.v))

\* a history that is started afresh by every call
AppendHistoryReset(h, meta, entry) ==
  LET l == New(h, ListCell(<<entry>>))
  IN Ok(SetItem(l.h, meta.a, "__history__", l.v), l.v)

\* lines 200-210: history = meta.setdefault("__history__", []); history.append(entry)
AppendHistory(h, meta, entry) ==
  IF ~HasKey(h[meta.a].e, "__history__")
  THEN LET l == New(h, ListCell(<<entry>>))
       IN Ok(SetItem(l.h, meta.a, "__history__", l.v), l.v)
  ELSE LET history == GetKey(h[meta.a].e, "__history__")
       IN IF ~IsList(h, history) THEN Raise(h, "AttributeError")
          ELSE Ok([h EXCEPT ![history.a].e = Append(@, entry)], history)

\* bg_payload.get("meta", {}).get(key)
MetaGet(h, payload, key) ==
  IF ~HasKey(h[payload.a].e, "meta") THEN Ok(h, None)
  ELSE LET meta == GetKey(h[payload.a].e, "meta")
       IN IF ~IsDict(h, meta) THEN Raise(h, "AttributeError")
          ELSE Ok(h, GetOrNone(h, meta, key))

\* lines 147-149
BackgroundUid(h, bg_payload) ==
  LET u == MetaGet(h, bg_payload, "__uid__")
  IN IF u.err # "none" THEN u
     ELSE IF Truthy(u.v) THEN u
     ELSE Ok(h, Str(compute_identifier(h, bg_payload, IdSpec(UidPaths))))

\* lines 194-198: meta["__background__"] = {...}
SetBackground(f, bg_payload, loop, bg_uid) ==
  IF f.err # "none" THEN f
  ELSE LET meta == GetKey(f.h[f.v.a].e, "meta")
           source == MetaGet(f.h, bg_payload, "source")
           skipped == New(f.h, ListCell(loop.skipped))
           background == New(skipped.h,
                             DictCell(<<[k |-> "uid", v |-> bg_uid],
                                        [k |-> "source", v |-> source.v],
                                        [k |-> "channels_skipped", v |-> skipped.v]>>))
       IN [f EXCEPT !.h = SetItem(background.h, meta.a, "__background__", background.v)]

\* lines 200-212
RecordHistory(f, params, now, bg_uid) ==
  IF f.err # "none" THEN Raise(f.h, f.err)
  ELSE IF ~params.record_history THEN Ok(f.h, f.v)
  ELSE LET hist == AppendHistory(f.h, GetKey(f.h[f.v.a].e, "meta"),
                     Rec([op_name |-> "background_subtract", params |-> params,
                          background_uid |-> bg_uid, timestamp |-> now,
                          output_uid |-> f.uid]))
       IN IF hist.err # "none" THEN Raise(hist.h, hist.err) ELSE Ok(hist.h, f.v)

\* lines 181-212: everything after the channel loop
Finish(exp_payload, bg_payload, params, now, c, loop, bg_uid) ==
  RecordHistory(
    SetBackground(
      EnsureOutUid(
        StoreOriginal(
          WriteResult(params, exp_payload, loop, _parse_path(params.output_field)),
          params, c)),
      bg_payload, loop, bg_uid),
    params, now, bg_uid)

\* lines 151-212, with the four resolved paths
Subtract(h, np, exp_payload, bg_payload, params, now, c, bg_uid) ==
  IF params.time_align \notin {"require_equal", "interp_bg_to_exp"}
  THEN Raise(h, "ValueError")
  ELSE IF /\ params.time_align = "require_equal"
          /\ (Len(c.t_exp) # Len(c.t_bg) \/ ~_allclose(np, c.t_exp, c.t_bg))
  THEN Raise(h, "ValueError")
  ELSE IF bg_uid.err # "none" THEN Raise(h, bg_uid.err)
  ELSE Finish(exp_payload, bg_payload, params, now, c,
              ChannelLoop(h, params, c,
                          [idx \in 1..Len(c.exp_items) |-> ChannelOutcome(h, np, params, c, idx)],
                          1, <<>>, <<>>),
              bg_uid.v)

\* lines 124-137: the time axes and channel mappings of both payloads
Resolved(h, params, t_exp, ch_exp, t_bg, ch_bg) ==
  IF t_exp.err # "none" \/ ch_exp.err # "none" THEN [err |-> "ValueError"]
  ELSE IF t_bg.err # "none" \/ ch_bg.err # "none" THEN [err |-> "ValueError"]
  ELSE IF ~IsDict(h, ch_exp.v) \/ ~IsDict(h, ch_bg.v) THEN [err |-> "ValueError"]
  ELSE [err |-> "none", t_exp |-> Arr(h, t_exp.v), t_bg |-> Arr(h, t_bg.v),
        ch_exp |-> ch_exp.v, exp_items |-> h[ch_exp.v.a].e, bg_items |-> h[ch_bg.v.a].e]

SubtractResolved(h, np, exp_payload, bg_payload, params, now, c) ==
  IF c.err # "none" THEN Raise(h, c.err)
  ELSE Subtract(h, np, exp_payload, bg_payload, params, now, c, BackgroundUid(h, bg_payload))

background_subtract_one(h, np, exp_payload, bg_payload, params, now) ==
  SubtractResolved(h, np, exp_payload, bg_payload, params, now,
    Resolved(h, params,
             resolve_path(h, exp_payload, params.time_path),
             resolve_path(h, exp_payload, params.channels_path),
             resolve_path(h, bg_payload, params.time_path),
             resolve_path(h, bg_payload, params.channels_path)))

(***************************************************************************)
(* Peak detection (template/detect_candidate_peaks.py)                     *)
(*                                                                         *)
(* Noise, threshold and SNR may be irrational (a square root): such a      *)
(* float is c * sqrt(v) with c, v rational, or one of nan / +inf.          *)
(***************************************************************************)
Fin(c, v) == [k |-> "fin", c |-> c, v |-> v]
NaN == [k |-> "nan"]
Inf == [k |-> "inf"]

Sgn(r) == IF r.n > 0 THEN 1 ELSE IF r.n < 0 THEN -1 ELSE 0
SgnF(x) == IF x.v.n = 0 THEN 0 ELSE Sgn(x.c)

\* val > x for a rational val and a float x
GtFloat(val, x) ==
  IF x.k # "fin" THEN FALSE
  ELSE IF Sgn(val) # SgnF(x) THEN Sgn(val) > SgnF(x)
  ELSE IF Sgn(val) = 0 THEN FALSE
  ELSE LET v2 == RMul(val, val)
           x2 == RMul(RMul(x.c, x.c), x.v)
       IN IF Sgn(val) > 0 THEN RLt(x2, v2) ELSE RLt(v2, x2)

RECURSIVE Insert(_, _)
Insert(x, sorted) ==
  IF sorted = <<>> THEN <<x>>
  ELSE IF RLt(x, Head(sorted)) THEN <<x>> \o sorted
  ELSE <<Head(sorted)>> \o Insert(x, Tail(sorted))

RECURSIVE Sorted(_)
Sorted(values) == IF values = <<>> THEN <<>> ELSE Insert(Head(values), Sorted(Tail(values)))

RECURSIVE Sum(_)
Sum(values) == IF values = <<>> THEN N(0) ELSE RAdd(Head(values), Sum(Tail(values)))

\* _median on a non-empty list (np.median and statistics.median agree)
_median(values) ==
  LET data == Sorted(values)
      n == Len(data)
  IN IF n % 2 = 1 THEN data[(n + 1) \div 2]
     ELSE RDiv(RAdd(data[n \div 2], data[n \div 2 + 1]), N(2))

\* lines 60-70: the linear interpolation between the two order statistics
\* around position k = (len - 1) * q / 100; data is indexed from 0 in the code
PercentileOf(data, k) ==
  LET f == k.n \div k.d
      c == IF k.d = 1 THEN f ELSE f + 1
  IN IF f = c THEN data[f + 1]
     ELSE RAdd(RMul(data[f + 1], RSub(N(c), k)), RMul(data[c + 1], RSub(k, N(f))))

\* _percentile on a non-empty list (np.percentile's linear method and the
\* fallback agree)
_percentile(values, q) == PercentileOf(Sorted(values), Q((Len(values) - 1) * q, 100))

\* a polarity estimate that takes a tie for a negative trace
EstimatePolarityStrict(np, y) ==
  IF y = <<>> THEN -1
  ELSE LET median == _median(y)
           pos_peakiness == RSub(_percentile(y, 99), median)
           neg_peakiness == RSub(median, _percentile(y, 1))
       IN IF RLt(neg_peakiness, pos_peakiness) THEN 1 ELSE -1

\* with numpy the median of an empty trace is nan and every comparison with
\* it is false; the fallback uses 0.0
_estimate_polarity(np, y) ==
  IF y = <<>> THEN (IF np THEN -1 ELSE 1)
  ELSE LET median == _median(y)
           pos_peakiness == RSub(_percentile(y, 99), median)
           neg_peakiness == RSub(median, _percentile(y, 1))
       IN IF RLe(neg_peakiness, pos_peakiness) THEN 1 ELSE -1

MadFactor == Q(7413, 5000)

\* sqrt(sum((v - mean)^2) / len) of a non-empty list
StdDev(values) ==
  LET mean == RDiv(Sum(values), N(Len(values)))
      sq == [i \in 1..Len(values) |-> RMul(RSub(values[i], mean), RSub(values[i], mean))]
  IN Fin(N(1), RDiv(Sum(sq), N(Len(values))))

RECURSIVE Select(_, _, _)
Select(arr, t_arr, pre_range) ==
  IF arr = <<>> \/ t_arr = <<>> THEN <<>>
  ELSE (IF RLe(pre_range[1], Head(t_arr)) /\ RLe(Head(t_arr), pre_range[2])
        THEN <<Head(arr)>> ELSE <<>>) \o Select(Tail(arr), Tail(t_arr), pre_range)

_estimate_noise(np, y, method, t, pre_range) ==
  IF method = "mad"
  THEN IF y = <<>> THEN [err |-> "none", noise |-> IF np THEN NaN ELSE Fin(N(0), N(1))]
       ELSE LET med == _median(y)
                deviations == [i \in 1..Len(y) |-> RAbs(RSub(y[i], med))]
            IN [err |-> "none", noise |-> Fin(RMul(MadFactor, _median(deviations)), N(1))]
  ELSE IF method = "rms"
  THEN [err |-> "none", noise |-> IF y = <<>> THEN Fin(N(0), N(1)) ELSE StdDev(y)]
  ELSE IF method = "std_pretrigger"
  THEN IF ~pre_range.some THEN [err |-> "ValueError", noise |-> NaN]
       ELSE LET subset == Select(y, t, pre_range.v)
            IN [err |-> "none",
                noise |-> IF subset = <<>> THEN Fin(N(0), N(1)) ELSE StdDev(subset)]
  ELSE [err |-> "SpecError", noise |-> NaN]

\* regions as <<start, end>> with 0-based start and exclusive end
RECURSIVE FindRegionsFrom(_, _, _, _)
FindRegionsFrom(mask, idx, in_region, start) ==
  IF idx >= Len(mask)
  THEN (IF in_region THEN << <<start, Len(mask)>> >> ELSE <<>>)
  ELSE IF mask[idx + 1] /\ ~in_region THEN FindRegionsFrom(mask, idx + 1, TRUE, idx)
  ELSE IF ~mask[idx + 1] /\ in_region
  THEN << <<start, idx>> >> \o FindRegionsFrom(mask, idx + 1, FALSE, start)
  ELSE FindRegionsFrom(mask, idx + 1, in_region, start)

_find_regions(mask) == FindRegionsFrom(mask, 0, FALSE, 0)

\* the last index (0-based) of the maximum of a non-empty slice
ArgMaxLast(slice) ==
  (CHOOSE i \in 1..Len(slice) :
     /\ \A j \in 1..Len(slice) : RLe(slice[j], slice[i])
     /\ \A j \in (i + 1)..Len(slice) : RLt(slice[j], slice[i])) - 1

\* the first index (0-based) of the maximum of a non-empty slice
ArgMax(slice) ==
  (CHOOSE i \in 1..Len(slice) :
     /\ \A j \in 1..Len(slice) : RLe(slice[j], slice[i])
     /\ \A j \in 1..(i - 1) : RLt(slice[j], slice[i])) - 1

\* sorted(peaks, key=lambda p: p["i"]): stable, ascending
RECURSIVE InsertByIndex(_, _)
InsertByIndex(p, sorted) ==
  IF sorted = <<>> THEN <<p>>
  ELSE IF p.i < Head(sorted).i THEN <<p>> \o sorted
  ELSE <<Head(sorted)>> \o InsertByIndex(p, Tail(sorted))

RECURSIVE SortByIndex(_)
SortByIndex(peaks) ==
  IF peaks = <<>> THEN <<>>
  ELSE InsertByIndex(peaks[Len(peaks)], SortByIndex(SubSeq(peaks, 1, Len(peaks) - 1)))

\* sorted(peaks, key=lambda p: p["amp"], reverse=True): stable, descending
RECURSIVE InsertByAmpDesc(_, _)
InsertByAmpDesc(p, sorted) ==
  IF sorted = <<>> THEN <<p>>
  ELSE IF RLt(Head(sorted).amp, p.amp) THEN <<p>> \o sorted
  ELSE <<Head(sorted)>> \o InsertByAmpDesc(p, Tail(sorted))

RECURSIVE SortByAmpDesc(_)
SortByAmpDesc(peaks) ==
  IF peaks = <<>> THEN <<>>
  ELSE InsertByAmpDesc(peaks[Len(peaks)], SortByAmpDesc(SubSeq(peaks, 1, Len(peaks) - 1)))

\* an inner loop whose window is one sample too short
RECURSIVE ScanOffByOne(_, _, _, _)
ScanOffByOne(peaks, current, j, min_distance) ==
  IF j <= Len(peaks) /\ peaks[j].i - current.i < min_distance - 1
  THEN ScanOffByOne(peaks, IF RLt(current.amp, peaks[j].amp) THEN peaks[j] ELSE current,
                    j + 1, min_distance)
  ELSE [current |-> current, j |-> j]

\* an inner loop that keeps the lower of two peaks
RECURSIVE ScanKeepLower(_, _, _, _)
ScanKeepLower(peaks, current, j, min_distance) ==
  IF j <= Len(peaks) /\ peaks[j].i - current.i < min_distance
  THEN ScanKeepLower(peaks, IF RLt(peaks[j].amp, current.amp) THEN peaks[j] ELSE current,
                     j + 1, min_distance)
  ELSE [current |-> current, j |-> j]

\* the inner while loop of _apply_deadtime, lines 144-147 (j is 1-based)
RECURSIVE Scan(_, _, _, _)
Scan(peaks, current, j, min_distance) ==
  IF j <= Len(peaks) /\ peaks[j].i - current.i < min_distance
  THEN Scan(peaks, IF RLt(current.amp, peaks[j].amp) THEN peaks[j] ELSE current,
            j + 1, min_distance)
  ELSE [current |-> current, j |-> j]

\* the outer while loop, lines 141-149: one record per window, holding the
\* retained peak and the positions from..to of the candidates it consumed
RECURSIVE Sweep(_, _, _)
Sweep(peaks_sorted, i, min_distance) ==
  IF i > Len(peaks_sorted) THEN <<>>
  ELSE LET w == Scan(peaks_sorted, peaks_sorted[i], i + 1, min_distance)
       IN <<[peak |-> w.current, from |-> i, to |-> w.j - 1]>>
          \o Sweep(peaks_sorted, w.j, min_distance)

_apply_deadtime(peaks, min_distance) ==
  LET windows == Sweep(SortByIndex(peaks), 1, min_distance)
  IN [k \in 1..Len(windows) |-> windows[k].peak]

RECURSIVE Filter(_, _)
Filter(peaks, level) ==
  IF peaks = <<>> THEN <<>>
  ELSE (IF RLt(Head(peaks).amp, level) THEN <<Head(peaks)>> ELSE <<>>)
       \o Filter(Tail(peaks), level)

\* lines 201-226: the candidate of each region that is wide enough
RECURSIVE RegionPeaks(_, _, _, _, _)
RegionPeaks(regions, y, t_values, noise, params) ==
  IF regions = <<>> THEN <<>>
  ELSE LET start == Head(regions)[1]
           end == Head(regions)[2]
           i_peak == start + ArgMax(SubSeq(y, start + 1, end))
           amp == y[i_peak + 1]
           base == [i |-> i_peak, t |-> t_values[i_peak + 1], amp |-> amp]
           withRegions == IF params.store_regions
                          THEN base @@ [region_start |-> start, region_end |-> end]
                          ELSE base
           peak_info == IF params.store_snr
                        THEN withRegions @@
                             [snr |-> IF SgnF(noise) > 0
                                      THEN Fin(RDiv(amp, RMul(noise.c, noise.v)), noise.v)
                                      ELSE Inf]
                        ELSE withRegions
           rest == RegionPeaks(Tail(regions), y, t_values, noise, params)
       IN IF end - start < params.min_width_samples \/ end - start = 0 THEN rest
          ELSE <<peak_info>> \o rest

\* lines 182-190
ApplyPolarity(np, polarity, y_raw) ==
  IF polarity = "invert" THEN [i \in 1..Len(y_raw) |-> RNeg(y_raw[i])]
  ELSE IF polarity = "preserve" THEN y_raw
  ELSE IF polarity = "auto"
  THEN LET sign == _estimate_polarity(np, y_raw)
       IN [i \in 1..Len(y_raw) |-> RMul(N(sign), y_raw[i])]
  ELSE y_raw

\* lines 192-196
Threshold(noise, threshold_sigma) ==
  IF noise.k = "nan" \/ SgnF(noise) <= 0 THEN Inf
  ELSE Fin(RMul(threshold_sigma, noise.c), noise.v)

\* sequence[:stop] of Python: a negative stop counts from the end
UpTo(sequence, stop) ==
  SubSeq(sequence, 1,
         IF stop >= 0 THEN Min(stop, Len(sequence))
         ELSE IF Len(sequence) + stop > 0 THEN Len(sequence) + stop ELSE 0)

\* the cap applied to the peaks of the dead time, the saturated peaks
\* dropped from what the cap has kept
PostFilterCapFirst(peaks, params) ==
  LET dead == _apply_deadtime(peaks, params.min_distance_samples)
      capped == IF params.max_peaks_per_channel.some
                THEN SortByIndex(UpTo(SortByAmpDesc(dead), params.max_peaks_per_channel.v.n))
                ELSE dead
  IN IF params.reject_saturated /\ params.saturation_level.some
     THEN Filter(capped, params.saturation_level.v)
     ELSE capped

\* lines 228-235
PostFilter(peaks, params) ==
  LET dead == _apply_deadtime(peaks, params.min_distance_samples)
      unsat == IF params.reject_saturated /\ params.saturation_level.some
               THEN Filter(dead, params.saturation_level.v)
               ELSE dead
  IN IF params.max_peaks_per_channel.some
     THEN SortByIndex(UpTo(SortByAmpDesc(unsat), params.max_peaks_per_channel.v.n))
     ELSE unsat

\* lines 237-249: the record stored for one channel
ChannelRecord(params, noise, threshold, peaks) ==
  LET col(f) == [i \in 1..Len(peaks) |-> peaks[i][f]]
      base == [i |-> col("i"), t |-> col("t"), amp |-> col("amp"),
               noise |-> noise, threshold |-> threshold]
      withSnr == IF params.store_snr THEN base @@ [snr |-> col("snr")] ELSE base
  IN IF params.store_regions
     THEN withSnr @@ [region_start |-> col("region_start"),
                      region_end |-> col("region_end")]
     ELSE withSnr

\* lines 198-249: regions over the threshold, their peaks, the post filters
PeaksOver(params, t_values, y, noise, threshold) ==
  [err |-> "none",
   record |-> ChannelRecord(params, noise, threshold,
                PostFilter(RegionPeaks(_find_regions([i \in 1..Len(y) |-> GtFloat(y[i], threshold)]),
                                       y, t_values, noise, params),
                           params))]

\* lines 192-249, est being what _estimate_noise returned
Thresholded(params, t_values, y, est) ==
  IF est.err # "none" THEN [err |-> est.err, record |-> <<>>]
  ELSE PeaksOver(params, t_values, y, est.noise, Threshold(est.noise, params.threshold_sigma))

\* lines 192-249 for the trace y with its polarity applied
Detect(np, params, t_values, y) ==
  Thresholded(params, t_values, y,
              _estimate_noise(np, y, params.noise_method, t_values,
                              params.pretrigger_time_range))

\* lines 176-249: one channel
ProcessChannel(np, params, t_values, key, y_raw) ==
  IF Len(y_raw) # Len(t_values)
  THEN [err |-> "ValueError", record |-> <<>>,
        msg |-> <<"Channel", key, "length", Len(y_raw),
                  "does not match time length", Len(t_values)>>]
  ELSE Detect(np, params, t_values, ApplyPolarity(np, params.polarity, y_raw))

\* a loop that leaves a failed channel out and goes on with the others
RECURSIVE PeaksLoopSkipFailed(_, _, _, _, _)
PeaksLoopSkipFailed(channels, channel_keys, results, k, by_channel) ==
  IF k > Len(channel_keys) THEN [err |-> "none", by_channel |-> by_channel, msg |-> <<>>]
  ELSE IF ~HasKey(channels, channel_keys[k]) \/ results[k].err # "none"
  THEN PeaksLoopSkipFailed(channels, channel_keys, results, k + 1, by_channel)
  ELSE PeaksLoopSkipFailed(channels, channel_keys, results, k + 1,
                           PutKey(by_channel, channel_keys[k], Rec(results[k].record)))

\* lines 173-249: the loop over channel_keys; results[k] is what the loop
\* body computes for channel_keys[k]
RECURSIVE PeaksLoop(_, _, _, _, _)
PeaksLoop(channels, channel_keys, results, k, by_channel) ==
  IF k > Len(channel_keys) THEN [err |-> "none", by_channel |-> by_channel, msg |-> <<>>]
  ELSE IF ~HasKey(channels, channel_keys[k])
  THEN PeaksLoop(channels, channel_keys, results, k + 1, by_channel)
  ELSE IF results[k].err # "none"
  THEN [err |-> results[k].err, by_channel |-> by_channel, msg |-> MsgOf(results[k])]
  ELSE PeaksLoop(channels, channel_keys, results, k + 1,
                 PutKey(by_channel, channel_keys[k], Rec(results[k].record)))

\* lines 251-253: events["candidate_peaks"] = {...} on the deep copy c
SetEvents(c, params, by_channel) ==
  LET events == SetDefaultDict(c.h, c.v.a, "events")
      bc == New(events.h, DictCell(by_channel))
      cp == New(bc.h, DictCell(<<[k |-> "by_channel", v |-> bc.v],
                                 [k |-> "params", v |-> Rec(params)]>>))
  IN IF ~IsDict(events.h, events.v) THEN Raise(events.h, "TypeError")
     ELSE Ok(SetItem(cp.h, events.v.a, "candidate_peaks", cp.v), c.v)

\* lines 257-265
RecordDetection(f, params, now) ==
  IF f.err # "none" THEN Raise(f.h, f.err)
  ELSE LET hist == AppendHistory(f.h, GetKey(f.h[f.v.a].e, "meta"),
                     Rec([op_name |-> "detect_candidate_peaks", params |-> params,
                          timestamp |-> now, output_uid |-> f.uid]))
       IN IF hist.err # "none" THEN Raise(hist.h, hist.err) ELSE Ok(hist.h, f.v)

\* lines 251-267: the annotated copy
Annotate(h, payload, params, now, loop) ==
  IF loop.err # "none" THEN RaiseMsg(h, loop.err, loop.msg)
  ELSE RecordDetection(
         EnsureOutUid(SetEvents(DeepCopy(h, payload), params, loop.by_channel)),
         params, now)

\* lines 170-267, with the time axis, the channel mapping and the keys
DetectIn(h, np, payload, params, now, t_values, channels, channel_keys) ==
  Annotate(h, payload, params, now,
           PeaksLoop(channels, channel_keys,
                     [k \in 1..Len(channel_keys) |->
                        IF HasKey(channels, channel_keys[k])
                        THEN ProcessChannel(np, params, t_values, channel_keys[k],
                                            Arr(h, GetKey(channels, channel_keys[k])))
                        ELSE [err |-> "none", record |-> <<>>]],
                     1, <<>>))

\* lines 156-170, t and channels being the two resolved paths
DetectResolved(h, np, payload, params, now, t, channels) ==
  IF t.err # "none" \/ channels.err # "none" THEN Raise(h, "SpecError")
  ELSE IF ~IsDict(h, channels.v) THEN Raise(h, "ValueError")
  ELSE DetectIn(h, np, payload, params, now, Arr(h, t.v), h[channels.v.a].e,
                IF params.channel_keys # <<>> THEN params.channel_keys
                ELSE Keys(h[channels.v.a].e))

detect_candidate_peaks(h, np, payload, params, now) ==
  DetectResolved(h, np, payload, params, now,
                 resolve_path(h, payload, params.time_path),
                 resolve_path(h, payload, params.channels_path))

(***************************************************************************)
(* Structural Transform Engine (waveform_display/transform/core.py)        *)
(***************************************************************************)
\* dict(value) if isinstance(value, dict) else value
DictCopy(h, value) == IF IsDict(h, value) THEN New(h, h[value.a]) ELSE [h |-> h, v |-> value]

RECURSIVE _clone_with_set_core(_, _, _, _)

\* a structural set that installs the value at the first missing token
\* instead of creating the mappings in between
CloneWithSetNoCreate(h, source, tokens, value) ==
  IF tokens = <<>> THEN LET d == DictCopy(h, value) IN Ok(d.h, d.v)
  ELSE IF ~IsDict(h, source) THEN Raise(h, "PathResolutionError")
  ELSE
    LET token == Head(tokens)
        copied == New(h, h[source.a])
    IN IF HasKey(h[source.a].e, token)
       THEN LET r == _clone_with_set_core(copied.h, GetKey(h[source.a].e, token),
                                          Tail(tokens), value)
            IN IF r.err # "none" THEN r
               ELSE Ok(SetItem(r.h, copied.v.a, token, r.v), copied.v)
       ELSE LET d == DictCopy(copied.h, value)
            IN Ok(SetItem(d.h, copied.v.a, token, d.v), copied.v)

\* the path-copying _clone_with_set of transform/core.py: a new dict per
\* level of the path, everything off the path shared with the source
_clone_with_set_core(h, source, tokens, value) ==
  IF tokens = <<>> THEN LET d == DictCopy(h, value) IN Ok(d.h, d.v)
  ELSE IF ~IsDict(h, source) THEN Raise(h, "PathResolutionError")
  ELSE
    LET token == Head(tokens)
        copied == New(h, h[source.a])
    IN IF HasKey(h[source.a].e, token)
       THEN LET r == _clone_with_set_core(copied.h, GetKey(h[source.a].e, token),
                                          Tail(tokens), value)
            IN IF r.err # "none" THEN r
               ELSE Ok(SetItem(r.h, copied.v.a, token, r.v), copied.v)
       ELSE IF Len(tokens) = 1
       THEN LET d == DictCopy(copied.h, value)
            IN Ok(SetItem(d.h, copied.v.a, token, d.v), copied.v)
       ELSE LET empty == New(copied.h, DictCell(<<>>))
                r == _clone_with_set_core(empty.h, empty.v, Tail(tokens), value)
            IN IF r.err # "none" THEN r
               ELSE Ok(SetItem(r.h, copied.v.a, token, r.v), copied.v)

_ensure_copy(h, payload, policy) ==
  IF policy = "deep" THEN LET c == DeepCopy(h, payload) IN Ok(c.h, c.v)
  ELSE IF policy = "shallow" THEN LET c == ShallowCopy(h, payload) IN Ok(c.h, c.v)
  ELSE Raise(h, "SpecError")

\* template.format applied to the bindings, for templates built from text and {name} fields
RECURSIVE Format(_, _)
Format(template, bindings) ==
  IF template = "" THEN ""
  ELSE LET hit == { i \in 1..Len(bindings) :
                      /\ Len(template) >= Len(bindings[i].name) + 2
                      /\ SubSeq(template, 1, Len(bindings[i].name) + 2)
                           = "{" \o bindings[i].name \o "}" }
       IN IF hit # {}
          THEN LET b == bindings[CHOOSE i \in hit : TRUE]
               IN b.value \o Format(SubSeq(template, Len(b.name) + 3, Len(template)), bindings)
          ELSE Ch(template, 1) \o Format(SubSeq(template, 2, Len(template)), bindings)

DefaultIdPaths == <<"meta.__uid__", "meta.file", "meta.shot", "meta.scope">>

\* how often child_id_base was produced before: seen_ids.get(child_id_base, 0)
SeenCount(seen_ids, id) == Cardinality({ i \in 1..Len(seen_ids) : seen_ids[i] = id })

\* lines 110-114: the copy with the item's container under the target path
WithItem(copy, c, child_key, value) ==
  IF copy.err # "none" THEN copy
  ELSE LET container == New(copy.h, DictCell(<<[k |-> child_key, v |-> value]>>))
       IN _clone_with_set_core(container.h, copy.v, c.target_tokens, container.v)

\* lines 121-122: the child with its id under attach_id_to_meta_path
WithId(child, meta_tokens, child_id) ==
  IF child.err # "none" THEN child
  ELSE IF meta_tokens.err # "none" THEN Raise(child.h, meta_tokens.err)
  ELSE _clone_with_set_core(child.h, child.v, meta_tokens.tokens, Str(child_id))

\* an id that leaves the item's key out
ChildIdWithoutKey(c, key, seen_ids) ==
  IF SeenCount(seen_ids, c.base_uid \o c.joiner \o key) = 0
  THEN c.base_uid
  ELSE c.base_uid \o "_" \o ToString(SeenCount(seen_ids, c.base_uid \o c.joiner \o key))

\* lines 116-118
ChildId(c, key, seen_ids) ==
  IF SeenCount(seen_ids, c.base_uid \o c.joiner \o key) = 0
  THEN c.base_uid \o c.joiner \o key
  ELSE c.base_uid \o c.joiner \o key \o "_"
         \o ToString(SeenCount(seen_ids, c.base_uid \o c.joiner \o key))

\* lines 109-123: the loop over the items; items are [key, value] with the
\* key already stringified.  SplitNext stores the child built for the first
\* item and goes on with the others.
RECURSIVE SplitLoop(_, _, _, _, _, _, _), SplitNext(_, _, _, _, _, _, _)
SplitLoop(h, payload, spec, c, items, outputs, seen_ids) ==
  IF items = <<>> THEN [h |-> h, err |-> "none", outputs |-> outputs]
  ELSE SplitNext(payload, spec, c, items, outputs, seen_ids,
         WithId(WithItem(_ensure_copy(h, payload, spec.copy_policy), c,
                         Format(spec.child_key_template,
                                <<[name |-> "key", value |-> Head(items).k],
                                  [name |-> "pid", value |-> c.base_uid]>>),
                         Head(items).v),
                _parse_path(spec.attach_id_to_meta_path),
                ChildId(c, Head(items).k, seen_ids)))

SplitNext(payload, spec, c, items, outputs, seen_ids, child) ==
  IF child.err # "none" THEN [h |-> child.h, err |-> child.err, outputs |-> outputs]
  ELSE SplitLoop(child.h, payload, spec, c, Tail(items),
                 PutKey(outputs, ChildId(c, Head(items).k, seen_ids), child.v),
                 Append(seen_ids, c.base_uid \o c.joiner \o Head(items).k))

\* line 125: the result is the dict of children, a new object
Outputs(loop) ==
  IF loop.err # "none" THEN Raise(loop.h, loop.err)
  ELSE LET outputs == New(loop.h, DictCell(loop.outputs)) IN Ok(outputs.h, outputs.v)

\* lines 92-125, with the base id, the resolved source and the target tokens
SplitResolved(h, payload, spec, base_uid, source, target_tokens) ==
  IF source.err # "none" THEN Raise(h, source.err)
  ELSE IF target_tokens.err # "none" THEN Raise(h, target_tokens.err)
  ELSE IF spec.split_mode = "dict_keys" /\ ~IsDict(h, source.v)
  THEN Raise(h, "TransformerError")
  ELSE IF spec.split_mode = "list_items" /\ ~IsList(h, source.v)
  THEN Raise(h, "TransformerError")
  ELSE Outputs(SplitLoop(h, payload, spec,
                 [base_uid |-> base_uid, target_tokens |-> target_tokens.tokens,
                  joiner |-> IF spec.id_spec.some THEN spec.id_spec.v.joiner ELSE "__"],
                 IF spec.split_mode = "dict_keys" THEN h[source.v.a].e
                 ELSE [i \in 1..Len(h[source.v.a].e) |->
                         [k |-> ToString(i - 1), v |-> h[source.v.a].e[i]]],
                 <<>>, <<>>))

split_payload(h, payload, spec) ==
  IF spec.split_mode \notin {"dict_keys", "list_items"} THEN Raise(h, "SpecError")
  ELSE SplitResolved(h, payload, spec,
         compute_identifier(h, payload,
           IF spec.id_spec.some THEN spec.id_spec.v ELSE IdSpec(DefaultIdPaths)),
         resolve_path(h, payload, spec.source_path),
         _parse_path(IF spec.child_payload_target_path.some
                     THEN spec.child_payload_target_path.v.s ELSE spec.source_path))

\* a comparison of the lengths of the time axes only
CompareLengths(h, reference, current) ==
  /\ IsList(h, reference) /\ IsList(h, current)
  /\ Len(h[reference.a].e) = Len(h[current.a].e)

\* _compare_timebases: np.array_equal and list == agree on numeric lists
_compare_timebases(h, reference, current) == Deref(h, reference) = Deref(h, current)

RECURSIVE SuffixFree(_, _, _, _)

\* a suffix counter that takes the first suffixed key without looking
\* whether it is free
SuffixFirst(key, separator, counter, existing) == key \o separator \o ToString(counter)

\* the while loop of the suffix_counter policy, lines 169-174
SuffixFree(key, separator, counter, existing) ==
  LET new_key == key \o separator \o ToString(counter)
  IN IF HasKey(existing, new_key) THEN SuffixFree(key, separator, counter + 1, existing)
     ELSE new_key

_apply_collision(spec, key, uid, existing) ==
  IF spec.collision_policy = "error"
  THEN IF HasKey(existing, key) THEN [err |-> "MergeCollisionError", k |-> key]
       ELSE [err |-> "none", k |-> key]
  ELSE IF spec.collision_policy = "attach_id"
  THEN LET new_key == Format(spec.collision_template,
                             <<[name |-> "key", value |-> key], [name |-> "uid", value |-> uid]>>)
       IN IF HasKey(existing, new_key) THEN [err |-> "MergeCollisionError", k |-> new_key]
          ELSE [err |-> "none", k |-> new_key]
  ELSE IF spec.collision_policy = "overwrite" THEN [err |-> "none", k |-> key]
  ELSE IF spec.collision_policy = "suffix_counter"
  THEN [err |-> "none",
        k |-> IF HasKey(existing, key)
              THEN SuffixFree(key, spec.collision_suffix_separator, 1, existing)
              ELSE key]
  ELSE [err |-> "SpecError", k |-> key]

RECURSIVE FoldKeys(_, _, _, _, _)

\* a fold that records no provenance for a value that overwrites another
FoldKeysSilentOverwrite(spec, uid, items, merged_target, provenance) ==
  IF items = <<>>
  THEN [err |-> "none", merged_target |-> merged_target, provenance |-> provenance]
  ELSE
    LET key == Head(items).k
        final == _apply_collision(spec, key, uid, merged_target)
        record == Rec([uid |-> uid, original_key |-> key, final_key |-> final.k])
        fail(e) == [err |-> e, merged_target |-> merged_target, provenance |-> provenance]
    IN IF final.err # "none" THEN fail(final.err)
       ELSE IF spec.collision_policy = "overwrite" /\ HasKey(merged_target, final.k)
       THEN FoldKeys(spec, uid, Tail(items), PutKey(merged_target, final.k, Head(items).v),
                     provenance)
       ELSE IF spec.merge_mode # "dict_union" THEN fail("SpecError")
       ELSE FoldKeys(spec, uid, Tail(items), PutKey(merged_target, final.k, Head(items).v),
                     Append(provenance, record))

\* lines 196-208: the keys of one payload folded into merged_target
FoldKeys(spec, uid, items, merged_target, provenance) ==
  IF items = <<>>
  THEN [err |-> "none", merged_target |-> merged_target, provenance |-> provenance]
  ELSE
    LET key == Head(items).k
        final == _apply_collision(spec, key, uid, merged_target)
        record == Rec([uid |-> uid, original_key |-> key, final_key |-> final.k])
        fail(e) == [err |-> e, merged_target |-> merged_target, provenance |-> provenance]
    IN IF final.err # "none" THEN fail(final.err)
       ELSE IF spec.collision_policy = "overwrite" /\ HasKey(merged_target, final.k)
       THEN FoldKeys(spec, uid, Tail(items), PutKey(merged_target, final.k, Head(items).v),
                     Append(provenance, record))
       ELSE IF spec.merge_mode # "dict_union" THEN fail("SpecError")
       ELSE FoldKeys(spec, uid, Tail(items), PutKey(merged_target, final.k, Head(items).v),
                     Append(provenance, record))

\* lines 189-208: one payload folded into acc, the merged target and the
\* provenance so far
FoldPayload(h, spec, time_ref, payload_uid, source, current_time, acc) ==
  IF source.err # "none" THEN [acc EXCEPT !.err = source.err]
  ELSE IF ~IsDict(h, source.v) THEN [acc EXCEPT !.err = "TransformerError"]
  ELSE IF spec.require_same_timebase /\ current_time.err # "none"
  THEN [acc EXCEPT !.err = current_time.err]
  ELSE IF spec.require_same_timebase /\ ~_compare_timebases(h, time_ref, current_time.v)
  THEN [acc EXCEPT !.err = "TransformerError"]
  ELSE FoldKeys(spec, payload_uid, h[source.v.a].e, acc.merged_target, acc.provenance)

\* lines 177-208: the loop over the payloads
RECURSIVE MergeLoop(_, _, _, _, _)
MergeLoop(h, spec, time_ref, payloads, acc) ==
  IF acc.err # "none" \/ payloads = <<>> THEN acc
  ELSE MergeLoop(h, spec, time_ref, Tail(payloads),
         FoldPayload(h, spec, time_ref,
           compute_identifier(h, Head(payloads),
             IF spec.id_spec.some THEN spec.id_spec.v ELSE IdSpec(DefaultIdPaths)),
           resolve_path(h, Head(payloads), spec.target_path),
           resolve_path(h, Head(payloads), spec.time_path),
           acc))

\* a merge that writes the provenance but leaves the base's own target
\* mapping in place
WriteProvenanceOnly(base, target_tokens, source_map_tokens, loop) ==
  IF loop.err # "none" THEN Raise(base.h, loop.err)
  ELSE LET provenance == New(base.h, ListCell(loop.provenance))
       IN _clone_with_set_core(provenance.h, base.v, source_map_tokens.tokens, provenance.v)

\* lines 210-217: the merged target and the provenance written into the base
WriteMerged(base, target_tokens, source_map_tokens, loop) ==
  IF loop.err # "none" THEN Raise(base.h, loop.err)
  ELSE LET merged_target == New(base.h, DictCell(loop.merged_target))
           provenance == New(merged_target.h, ListCell(loop.provenance))
           base1 == _clone_with_set_core(provenance.h, base.v, target_tokens.tokens,
                                         merged_target.v)
       IN IF base1.err # "none" THEN Raise(base1.h, base1.err)
          ELSE _clone_with_set_core(base1.h, base1.v, source_map_tokens.tokens, provenance.v)

\* lines 141-217, with both paths parsed, the base copied and its target
\* and time resolved
MergeResolved(h, base, payloads, spec, target_tokens, source_map_tokens, base_target, time_ref) ==
  IF target_tokens.err # "none" THEN Raise(h, target_tokens.err)
  ELSE IF source_map_tokens.err # "none" THEN Raise(h, source_map_tokens.err)
  ELSE IF base_target.err # "none" THEN Raise(base.h, base_target.err)
  ELSE IF ~IsDict(base.h, base_target.v) THEN Raise(base.h, "TransformerError")
  ELSE IF spec.require_same_timebase /\ time_ref.err # "none"
  THEN Raise(base.h, time_ref.err)
  ELSE WriteMerged(base, target_tokens, source_map_tokens,
         MergeLoop(base.h, spec, time_ref.v, payloads,
                   [err |-> "none", merged_target |-> <<>>, provenance |-> <<>>]))

merge_payloads(h, payloads, spec) ==
  IF payloads = <<>> THEN Raise(h, "TransformerError")
  ELSE LET base_payload == DeepCopy(h, payloads[1])
       IN MergeResolved(h, base_payload, payloads, spec,
            _parse_path(spec.target_path), _parse_path(spec.source_map_path),
            resolve_path(base_payload.h, base_payload.v, spec.target_path),
            resolve_path(base_payload.h, base_payload.v, spec.time_path))

(***************************************************************************)
(* Payload construction (waveform_display/models.py)                       *)
(***************************************************************************)
\* allocate one list per channel; chans is a sequence of [k, v] with v the samples
RECURSIVE MkChannels(_, _, _)
MkChannels(h, chans, entries) ==
  IF chans = <<>> THEN New(h, DictCell(entries))
  ELSE LET a == New(h, ListCell(Head(chans).v))
       IN MkChannels(a.h, Tail(chans), Append(entries, [k |-> Head(chans).k, v |-> a.v]))

\* meta: [kind |-> "absent" | "dict" | "scalar", e |-> scalar entries,
\*        history |-> the __history__ entries, hasHistory |-> BOOLEAN]
MkMeta(h, meta) ==
  IF meta.kind = "scalar" THEN [h |-> h, v |-> Str("meta")]
  ELSE IF meta.hasHistory
  THEN LET l == New(h, ListCell(meta.history))
       IN New(l.h, DictCell(Append(meta.e, [k |-> "__history__", v |-> l.v])))
  ELSE New(h, DictCell(meta.e))

create_waveform_payload(h, time, channels, meta) ==
  LET t == New(h, ListCell(time))
      ch == MkChannels(t.h, channels, <<>>)
      data == New(ch.h, DictCell(<<[k |-> "time", v |-> t.v], [k |-> "channels", v |-> ch.v]>>))
      m == MkMeta(data.h, meta)
      fields == <<[k |-> "type", v |-> Str("waveform_bundle")], [k |-> "data", v |-> data.v]>>
  IN IF meta.kind = "absent" THEN New(data.h, DictCell(fields))
     ELSE New(m.h, DictCell(Append(fields, [k |-> "meta", v |-> m.v])))

(***************************************************************************)
(* Parameter objects and their documented defaults                         *)
(***************************************************************************)
NoValue == [some |-> FALSE, v |-> None]
Some(v) == [some |-> TRUE, v |-> v]

BackgroundSubtractParams ==
  [time_path |-> "data.time", channels_path |-> "data.channels", match_mode |-> "by_key",
   missing_channel_policy |-> "skip", bg_scale |-> N(1), exp_scale |-> N(1),
   time_align |-> "require_equal", interp_kind |-> "linear", result_channel_prefix |-> "",
   store_original |-> TRUE, output_field |-> "data.channels", record_history |-> TRUE]

DetectCandidatePeaksParams ==
  [time_path |-> "data.time", channels_path |-> "data.channels", channel_keys |-> <<>>,
   polarity |-> "normalized", noise_method |-> "mad", pretrigger_time_range |-> NoValue,
   threshold_sigma |-> N(5), min_distance_samples |-> 20, min_width_samples |-> 1,
   max_peaks_per_channel |-> NoValue, reject_saturated |-> FALSE,
   saturation_level |-> NoValue, store_regions |-> TRUE, store_snr |-> TRUE]

SplitSpec(source_path, split_mode) ==
  [source_path |-> source_path, split_mode |-> split_mode,
   child_payload_target_path |-> NoValue, id_spec |-> NoValue, child_key_template |-> "{key}",
   attach_id_to_meta_path |-> "meta.__uid__", copy_policy |-> "shallow"]

MergeSpec(target_path, merge_mode) ==
  [target_path |-> target_path, merge_mode |-> merge_mode, id_spec |-> NoValue,
   collision_policy |-> "attach_id", collision_template |-> "{key}@{uid}",
   require_same_timebase |-> TRUE, time_path |-> "data.time",
   source_map_path |-> "meta.__sources__", collision_suffix_separator |-> "_"]

(***************************************************************************)
(* The operator calls as actions.  The caller holds two payloads: pool[1], *)
(* the payload being worked on, and pool[2], the background.  A call that  *)
(* returns hands its result to the caller as the new pool[1], so that      *)
(* operators are chained; a call that raises leaves the pool as it was.    *)
(* limit bounds the length of the chain.                                   *)
(***************************************************************************)
MaxCalls == 2

Returned(op, args, params, res, result) ==
  /\ heap' = res.h
  /\ pool' = IF res.err = "none" THEN <<result, pool[2]>> ELSE pool
  /\ last' = [op |-> op, args |-> args, params |-> params, err |-> res.err,
              out |-> res.v, pre |-> heap, msg |-> MsgOf(res)]
  /\ clock' = clock + 1
  /\ UNCHANGED <<numpy, store, calls>>

\* the call returned its result, which the caller goes on with
ReturnedPayload(op, args, params, res) == Returned(op, args, params, res, res.v)

\* the call returned a dict of children; the caller goes on with any one of them
ReturnedChildren(op, args, params, res) ==
  IF res.err # "none" \/ res.h[res.v.a].e = <<>>
  THEN Returned(op, args, params, res, pool[1])
  ELSE \E i \in 1..Len(res.h[res.v.a].e) :
         Returned(op, args, params, res, res.h[res.v.a].e[i].v)

BackgroundSubtract(P, limit) ==
  \E params \in P :
    /\ clock < limit
    /\ ReturnedPayload("background_subtract", pool, params,
         background_subtract_one(heap, numpy, pool[1], pool[2], params, clock))

DetectPeaks(P, limit) ==
  \E params \in P :
    /\ clock < limit
    /\ ReturnedPayload("detect_candidate_peaks", <<pool[1]>>, params,
         detect_candidate_peaks(heap, numpy, pool[1], params, clock))

Split(P, limit) ==
  \E spec \in P :
    /\ clock < limit
    /\ ReturnedChildren("split_payload", <<pool[1]>>, spec,
         split_payload(heap, pool[1], spec))

Merge(P, limit) ==
  \E spec \in P, payloads \in {pool, <<pool[2], pool[1]>>} :
    /\ clock < limit
    /\ ReturnedPayload("merge_payloads", payloads, spec,
         merge_payloads(heap, payloads, spec))

\* merge_payloads on a list of up to most payloads of the pool, a payload
\* possibly more than once
MergeMany(P, most, limit) ==
  \E spec \in P, payloads \in UNION { [1..n -> {pool[1], pool[2]}] : n \in 0..most } :
    /\ clock < limit
    /\ ReturnedPayload("merge_payloads", payloads, spec,
         merge_payloads(heap, payloads, spec))

\* merge_payloads on all the children the split before returned, in the
\* order of the mapping returned
MergeChildren(P, limit) ==
  \E spec \in P :
    /\ clock < limit
    /\ last.op = "split_payload" /\ last.err = "none"
    /\ ReturnedPayload("merge_payloads",
         [i \in 1..Len(heap[last.out.a].e) |-> heap[last.out.a].e[i].v], spec,
         merge_payloads(heap, [i \in 1..Len(heap[last.out.a].e) |-> heap[last.out.a].e[i].v],
                        spec))

\* a call of the helper op, which works on values and leaves the heap alone
ReturnedValue(op, args, params, err, out) ==
  /\ last' = [op |-> op, args |-> args, params |-> params, err |-> err,
              out |-> out, pre |-> heap, msg |-> <<>>]
  /\ clock' = clock + 1
  /\ UNCHANGED <<heap, pool, numpy, store, calls>>

\* _interp(t_exp, t_bg, bg_values) on the time axes of the two payloads and
\* the background's channel A
Interp(limit) ==
  /\ clock < limit
  /\ LET x == Arr(heap, resolve_path(heap, pool[1], "data.time").v)
         xp == Arr(heap, resolve_path(heap, pool[2], "data.time").v)
         fp == Arr(heap, resolve_path(heap, pool[2], "data.channels.A").v)
         r == _interp(numpy, x, xp, fp)
     IN ReturnedValue("_interp", <<x, xp, fp>>, <<>>, r.err, r.a)

\* the samples of the trace that are positive, as candidate peaks
RECURSIVE Positive(_, _)
Positive(y, i) ==
  IF i > Len(y) THEN <<>>
  ELSE (IF y[i].n > 0 THEN <<[i |-> i - 1, t |-> N(i - 1), amp |-> y[i]]>> ELSE <<>>)
       \o Positive(y, i + 1)

Reverse(s) == [k \in 1..Len(s) |-> s[Len(s) + 1 - k]]

\* _apply_deadtime(peaks, min_distance) on the positive samples of channel A,
\* handed over in ascending or in descending order of index
ApplyDeadtime(D, limit) ==
  \E min_distance \in D, descending \in BOOLEAN :
    /\ clock < limit
    /\ LET y == Arr(heap, resolve_path(heap, pool[1], "data.channels.A").v)
           peaks == IF descending THEN Reverse(Positive(y, 1)) ELSE Positive(y, 1)
       IN ReturnedValue("_apply_deadtime", <<peaks>>, [min_distance |-> min_distance],
                        "none",
                        [result |-> _apply_deadtime(peaks, min_distance),
                         windows |-> Sweep(SortByIndex(peaks), 1, min_distance)])

\* the structural set with the tokens p parsed from a path, by the
\* _clone_with_set of transform/core.py or by that of background_subtract.py
SetTokens(h, source, p, value, core) ==
  IF p.err # "none" THEN Raise(h, p.err)
  ELSE IF core THEN _clone_with_set_core(h, source, p.tokens, value)
  ELSE _clone_with_set_bg(h, source, p.tokens, value)

\* compute_identifier(payload, IdSpec(id_paths, fallback, joiner, sanitize))
\* with the id paths of the targets
ComputeIdentifier(P, limit) ==
  \E targets \in P, fallback \in {"payload", "no id"}, joiner \in {"__", "-", ""},
     sanitize \in BOOLEAN :
    /\ clock < limit
    /\ ReturnedValue("compute_identifier", <<pool[1]>>,
                     [targets |-> targets,
                      id_spec |-> [id_paths |-> [i \in 1..Len(targets) |-> targets[i].path],
                                   fallback |-> fallback, joiner |-> joiner,
                                   sanitize |-> sanitize]],
                     "none",
                     Str(compute_identifier(heap, pool[1],
                           [id_paths |-> [i \in 1..Len(targets) |-> targets[i].path],
                            fallback |-> fallback, joiner |-> joiner,
                            sanitize |-> sanitize])))

\* _parse_path(path); the target says how the path was written
ParsePath(P, limit) ==
  \E target \in P :
    /\ clock < limit
    /\ ReturnedValue("_parse_path", <<>>, target,
                     _parse_path(target.path).err, _parse_path(target.path).tokens)

\* resolve_path(payload, path)
ResolvePath(P, limit) ==
  \E target \in P :
    /\ clock < limit
    /\ Returned("resolve_path", <<pool[1]>>, target,
                resolve_path(heap, pool[1], target.path), pool[1])

\* _clone_with_set(payload, _parse_path(path), value), the value being a
\* scalar or an object of the heap
SetPath(P, limit) ==
  \E target \in P, core \in BOOLEAN,
     value \in {Str("v"), None, pool[2], resolve_path(heap, pool[1], "data.channels").v,
                resolve_path(heap, pool[1], "data.time").v} :
    /\ clock < limit
    /\ Returned("_clone_with_set", <<pool[1]>>,
                [path |-> target.path, tokens |-> target.tokens, value |-> value,
                 core |-> core],
                SetTokens(heap, pool[1], _parse_path(target.path), value, core), pool[1])

(***************************************************************************)
(* Initial states: an experiment payload and a background payload, built   *)
(* by create_waveform_payload, and the build (with or without numpy)       *)
(***************************************************************************)
NoCall ==
  [op |-> "none", args |-> <<>>, params |-> <<>>, err |-> "none", out |-> None, pre |-> <<>>,
   msg |-> <<>>]

Start(exp_time, exp_channels, exp_meta, bg_time, bg_channels, bg_meta, np) ==
  LET exp == create_waveform_payload(<<>>, exp_time, exp_channels, exp_meta)
      bg == create_waveform_payload(exp.h, bg_time, bg_channels, bg_meta)
  IN /\ heap = bg.h
     /\ pool = <<exp.v, bg.v>>
     /\ last = NoCall
     /\ clock = 0
     /\ numpy = np
     /\ store = <<>>
     /\ calls = <<>>

HistoryEntry0 ==
  Rec([op_name |-> "import", params |-> <<>>, timestamp |-> 0, output_uid |-> Str("u1")])

NoMeta == [kind |-> "absent", e |-> <<>>, history |-> <<>>, hasHistory |-> FALSE]
DictMeta(e) == [kind |-> "dict", e |-> e, history |-> <<>>, hasHistory |-> FALSE]

MetaVariants ==
  { NoMeta,
    DictMeta(<<>>),
    [DictMeta(<<[k |-> "__uid__", v |-> Str("u1")], [k |-> "source", v |-> Str("scope.bin")]>>)
       EXCEPT !.hasHistory = TRUE, !.history = <<HistoryEntry0>>],
    DictMeta(<<[k |-> "file", v |-> Str("run 1/a")], [k |-> "shot", v |-> IntV(123)],
               [k |-> "scope", v |-> None]>>),
    DictMeta(<<[k |-> "__uid__", v |-> None], [k |-> "shot", v |-> IntV(7)]>>),
    [NoMeta EXCEPT !.kind = "scalar"] }

BgMetaVariants ==
  { NoMeta,
    DictMeta(<<[k |-> "__uid__", v |-> Str("")], [k |-> "scope", v |-> Str("S2")],
               [k |-> "source", v |-> Str("bg.bin")]>>),
    DictMeta(<<[k |-> "__uid__", v |-> Str("bg1")]>>) }

\* the time axis 0, step, 2 * step, ... of n samples
Ramp(n, step) == [i \in 1..n |-> N((i - 1) * step)]

\* the samples first, first + 1, ... of a channel
Samples(n, first) == [i \in 1..n |-> N(first + i - 1)]

(***************************************************************************)
(* Spec: chains of operator calls on payloads with varied metadata         *)
(***************************************************************************)
Init ==
  \E em \in MetaVariants, bm \in BgMetaVariants, np \in BOOLEAN :
    Start(Ramp(2, 1), <<[k |-> "A", v |-> Samples(2, 1)], [k |-> "B", v |-> Samples(2, 3)]>>, em,
          Ramp(2, 1), <<[k |-> "A", v |-> <<Q(1, 2), Q(1, 2)>>]>>, bm, np)

BgParamsOps ==
  { BackgroundSubtractParams,
    [BackgroundSubtractParams EXCEPT !.record_history = FALSE, !.store_original = FALSE],
    [BackgroundSubtractParams EXCEPT !.time_align = "interp_bg_to_exp",
       !.match_mode = "by_index", !.missing_channel_policy = "error",
       !.output_field = "data.subtracted", !.result_channel_prefix = "sub_"] }

DetectParamsOps ==
  { DetectCandidatePeaksParams,
    [DetectCandidatePeaksParams EXCEPT !.polarity = "auto", !.noise_method = "rms",
       !.threshold_sigma = N(1), !.min_distance_samples = 1] }

SplitSpecsOps ==
  { SplitSpec("data.channels", "dict_keys"),
    SplitSpec("meta.__history__", "list_items") }

MergeSpecsOps ==
  { MergeSpec("data.channels", "dict_union"),
    [MergeSpec("data.channels", "dict_union") EXCEPT !.collision_policy = "overwrite"],
    [MergeSpec("data.channels", "dict_union") EXCEPT !.collision_policy = "error",
       !.require_same_timebase = FALSE] }

Next ==
  \/ BackgroundSubtract(BgParamsOps, MaxCalls)
  \/ DetectPeaks(DetectParamsOps, MaxCalls)
  \/ Split(SplitSpecsOps, MaxCalls)
  \/ Merge(MergeSpecsOps, MaxCalls)

Spec == Init /\ [][Next]_vars

(***************************************************************************)
(* SpecBg: one call of background_subtract_one, or of _interp, on numeric  *)
(* payloads whose time axes and channels have up to MaxLen samples         *)
(***************************************************************************)
MaxLen == 3

Halves(n) == [i \in 1..n |-> Q(1, 2)]

ExpChannelsNum(n) ==
  { <<[k |-> "A", v |-> Samples(n, 1)]>>,
    <<[k |-> "A", v |-> Samples(n, 1)], [k |-> "B", v |-> Samples(n, 3)]>> }

BgChannelsNum(m) ==
  UNION { { <<[k |-> "A", v |-> values]>>,
            <<[k |-> "X", v |-> Halves(m)], [k |-> "A", v |-> values]>> } :
          values \in {Halves(m), Ramp(m, 2)} }

InitBg ==
  \E n \in 1..MaxLen, nb \in 1..MaxLen, mb \in 1..MaxLen, step \in {1, 2}, np \in BOOLEAN :
    \E exp_channels \in ExpChannelsNum(n), bg_channels \in BgChannelsNum(mb) :
      Start(Ramp(n, 1), exp_channels, DictMeta(<<>>),
            Ramp(nb, step), bg_channels, DictMeta(<<[k |-> "__uid__", v |-> Str("bg1")]>>), np)

Scales ==
  { [exp_scale |-> N(1), bg_scale |-> N(1), prefix |-> ""],
    [exp_scale |-> N(2), bg_scale |-> Q(1, 2), prefix |-> "sub_"] }

BgParamsNum ==
  { [BackgroundSubtractParams EXCEPT !.time_align = time_align, !.match_mode = match_mode,
       !.missing_channel_policy = policy, !.exp_scale = s.exp_scale,
       !.bg_scale = s.bg_scale, !.result_channel_prefix = s.prefix] :
    time_align \in {"require_equal", "interp_bg_to_exp"},
    match_mode \in {"by_key", "by_index"},
    policy \in {"skip", "error"},
    s \in Scales }

NextBg ==
  \/ BackgroundSubtract(BgParamsNum, 1)
  \/ Interp(1)

SpecBg == InitBg /\ [][NextBg]_vars

(***************************************************************************)
(* SpecEnum: one call of either operator with enumerated parameters that   *)
(* are valid or not, on payloads with two channels or with none            *)
(***************************************************************************)
InitEnum ==
  \E em \in MetaVariants, bm \in BgMetaVariants, np \in BOOLEAN :
    \E exp_channels \in { <<>>, <<[k |-> "A", v |-> Samples(2, 1)],
                                  [k |-> "B", v |-> Samples(2, 3)]>> } :
      Start(Ramp(2, 1), exp_channels, em,
            Ramp(2, 1), <<[k |-> "A", v |-> Halves(2)]>>, bm, np)

BgParamsEnum ==
  { [BackgroundSubtractParams EXCEPT !.time_align = time_align, !.match_mode = match_mode,
       !.missing_channel_policy = policy] :
    time_align \in {"require_equal", "interp_bg_to_exp", "nearest"},
    match_mode \in {"by_key", "by_index", "by_name"},
    policy \in {"skip", "error", "ignore"} }

DetectParamsEnum ==
  { [DetectCandidatePeaksParams EXCEPT !.polarity = polarity, !.noise_method = noise_method,
       !.channel_keys = channel_keys] :
    polarity \in {"normalized", "auto", "absolute"},
    noise_method \in {"mad", "rms", "median"},
    channel_keys \in {<<>>, <<"Z">>} }

NextEnum ==
  \/ BackgroundSubtract(BgParamsEnum, 1)
  \/ DetectPeaks(DetectParamsEnum, 1)

SpecEnum == InitEnum /\ [][NextEnum]_vars

(***************************************************************************)
(* SpecPk: one call of detect_candidate_peaks, or of _apply_deadtime, on a *)
(* trace of TraceLen samples, with dead times up to MaxDist samples        *)
(***************************************************************************)
TraceLen == 5
MaxDist == 3

Levels == {N(0), N(1), N(3)}

InitPk ==
  \E trace \in [1..TraceLen -> Levels], np \in BOOLEAN :
    Start(Ramp(TraceLen, 1), <<[k |-> "A", v |-> trace]>>, DictMeta(<<>>),
          Ramp(TraceLen, 1), <<[k |-> "A", v |-> trace]>>, NoMeta, np)

DetectParamsPk ==
  { DetectCandidatePeaksParams }
  \cup
  UNION { { [DetectCandidatePeaksParams EXCEPT !.noise_method = "rms",
               !.threshold_sigma = Q(1, 2), !.min_distance_samples = d],
            [DetectCandidatePeaksParams EXCEPT !.noise_method = "rms",
               !.threshold_sigma = Q(1, 2), !.min_distance_samples = d,
               !.max_peaks_per_channel = Some(IntV(2))],
            [DetectCandidatePeaksParams EXCEPT !.noise_method = "rms",
               !.threshold_sigma = Q(1, 2), !.min_distance_samples = d,
               !.reject_saturated = TRUE, !.saturation_level = Some(N(3))] } :
          d \in 1..MaxDist }

NextPk ==
  \/ DetectPeaks(DetectParamsPk, 1)
  \/ ApplyDeadtime(1..MaxDist, 1)

SpecPk == InitPk /\ [][NextPk]_vars

(***************************************************************************)
(* SpecTh: detect_candidate_peaks applied again and again to one trace,    *)
(* with one threshold_sigma or another                                     *)
(***************************************************************************)
DetectParamsTh ==
  { [DetectCandidatePeaksParams EXCEPT !.noise_method = "rms",
       !.threshold_sigma = sigma, !.min_distance_samples = d] :
    sigma \in {Q(1, 2), N(1)}, d \in {1, 20} }

NextTh == DetectPeaks(DetectParamsTh, MaxCalls)

SpecTh == InitPk /\ [][NextTh]_vars

(***************************************************************************)
(* SpecLen: one call of detect_candidate_peaks on a payload whose channels *)
(* A and B have up to MaxLen samples each, on a time axis of two samples   *)
(***************************************************************************)
InitLen ==
  \E na \in 1..MaxLen, nb \in 1..MaxLen, em \in {NoMeta, DictMeta(<<>>)}, np \in BOOLEAN :
    Start(Ramp(2, 1), <<[k |-> "A", v |-> Samples(na, 1)], [k |-> "B", v |-> Samples(nb, 3)]>>, em,
          Ramp(2, 1), <<[k |-> "A", v |-> Halves(2)]>>, NoMeta, np)

DetectParamsLen ==
  { [DetectCandidatePeaksParams EXCEPT !.channel_keys = channel_keys,
       !.noise_method = noise_method, !.min_distance_samples = 1] :
    channel_keys \in {<<>>, <<"B", "A">>, <<"A", "Z">>},
    noise_method \in {"mad", "rms", "std_pretrigger"} }

NextLen == DetectPeaks(DetectParamsLen, 1)

SpecLen == InitLen /\ [][NextLen]_vars

(***************************************************************************)
(* SpecPol: one call of detect_candidate_peaks, with each polarity, on a   *)
(* trace of TraceLen samples that are negative, zero or positive           *)
(***************************************************************************)
SignedLevels == {N(-3), N(0), N(3)}

InitPol ==
  \E trace \in [1..TraceLen -> SignedLevels], np \in BOOLEAN :
    Start(Ramp(TraceLen, 1), <<[k |-> "A", v |-> trace]>>, DictMeta(<<>>),
          Ramp(TraceLen, 1), <<[k |-> "A", v |-> trace]>>, NoMeta, np)

DetectParamsPol ==
  { [DetectCandidatePeaksParams EXCEPT !.polarity = polarity, !.noise_method = "rms",
       !.threshold_sigma = Q(1, 2), !.min_distance_samples = 1] :
    polarity \in {"preserve", "invert", "auto", "normalized"} }

NextPol == DetectPeaks(DetectParamsPol, 1)

SpecPol == InitPol /\ [][NextPol]_vars

(***************************************************************************)
(* What a caller can observe of a payload p on a heap h                    *)
(***************************************************************************)
\* the value found at path, None when the path does not resolve
Get(h, p, path) == resolve_path(h, p, path).v

\* the entries <<[k, v]>> of the dict at path, none when there is no dict
Entries(h, p, path) == IF IsDict(h, Get(h, p, path)) THEN h[Get(h, p, path).a].e ELSE <<>>

\* the elements of the list at path, none when there is no list
Elements(h, p, path) == IF IsList(h, Get(h, p, path)) THEN h[Get(h, p, path).a].e ELSE <<>>

KeySet(e) == { e[i].k : i \in 1..Len(e) }

Operators == {"background_subtract", "detect_candidate_peaks", "split_payload", "merge_payloads"}

(***************************************************************************)
(* C1: background_subtract_one, detect_candidate_peaks, split_payload and  *)
(* merge_payloads never mutate their argument payloads: after every call,  *)
(* returned or raised, each argument payload is structurally equal         *)
(* (history, uid and channel mappings included) to what it was before.     *)
(***************************************************************************)
C1_InputsNotMutated ==
  last.op \in Operators =>
    \A i \in 1..Len(last.args) : Deref(heap, last.args[i]) = Deref(last.pre, last.args[i])

\* a second call of a chain returned a payload that differs from its argument
C1_Witness ==
  /\ last.op = "background_subtract"
  /\ last.err = "none"
  /\ clock > 1
  /\ Deref(heap, last.out) # Deref(heap, last.args[1])

(***************************************************************************)
(* The last call of background_subtract_one, as its caller sees it: the    *)
(* arguments are read on the heap before the call, the result on the heap  *)
(* after it                                                                *)
(***************************************************************************)
BgCall == last.op = "background_subtract"
BgReturned == BgCall /\ last.err = "none"

ExpItems == Entries(last.pre, last.args[1], last.params.channels_path)
BgItems == Entries(last.pre, last.args[2], last.params.channels_path)
ExpTime == Elements(last.pre, last.args[1], last.params.time_path)
OutItems == Entries(heap, last.out, last.params.output_field)

ExpValues(idx) == last.pre[ExpItems[idx].v.a].e
OutKey(idx) == last.params.result_channel_prefix \o ExpItems[idx].k
OutValues(idx) == IF HasKey(OutItems, OutKey(idx)) /\ IsList(heap, GetKey(OutItems, OutKey(idx)))
                  THEN heap[GetKey(OutItems, OutKey(idx)).a].e
                  ELSE <<>>

\* by_key: the name is a background channel; by_index: the position is
\* within the background's channel count
IsMatched(idx) ==
  IF last.params.match_mode = "by_key" THEN ExpItems[idx].k \in KeySet(BgItems)
  ELSE idx <= Len(BgItems)

\* the raw values of the background channel matched with the idx-th channel
MatchedBgValues(idx) ==
  IF last.params.match_mode = "by_key"
  THEN last.pre[GetKey(BgItems, ExpItems[idx].k).a].e
  ELSE last.pre[BgItems[idx].v.a].e

MatchedSet == { idx \in 1..Len(ExpItems) : IsMatched(idx) }
UnmatchedSet == { idx \in 1..Len(ExpItems) : ~IsMatched(idx) }

(***************************************************************************)
(* C2: in every successful call of background_subtract_one each subtracted *)
(* output channel has exactly the length of the experiment channel and of  *)
(* the experiment time axis: a length mismatch between a matched channel   *)
(* and its background values makes the call fail, it never truncates.      *)
(***************************************************************************)
C2_NoSilentTruncation ==
  BgReturned =>
    \A idx \in MatchedSet :
      /\ Len(OutValues(idx)) = Len(ExpValues(idx))
      /\ Len(OutValues(idx)) = Len(ExpTime)

(***************************************************************************)
(* C3: for every matched experiment channel the output channel equals,     *)
(* element by element, exp_scale * exp[i] - bg_scale * bg[i] (bg the raw   *)
(* background values under require_equal), and the list fallback of        *)
(* _scaled_subtract gives the same result as the vectorized expression.    *)
(***************************************************************************)
C3_ElementwiseDifference ==
  (BgReturned /\ last.params.time_align = "require_equal") =>
    \A idx \in MatchedSet :
      /\ \A i \in 1..Len(ExpValues(idx)) :
           /\ i <= Len(OutValues(idx))
           /\ i <= Len(MatchedBgValues(idx))
           /\ OutValues(idx)[i] = RSub(RMul(last.params.exp_scale, ExpValues(idx)[i]),
                                       RMul(last.params.bg_scale, MatchedBgValues(idx)[i]))
      /\ _scaled_subtract(FALSE, ExpValues(idx), MatchedBgValues(idx),
                          last.params.exp_scale, last.params.bg_scale)
         = _scaled_subtract(TRUE, ExpValues(idx), MatchedBgValues(idx),
                            last.params.exp_scale, last.params.bg_scale)

(***************************************************************************)
(* C4: an experiment channel with no matching background channel is, under *)
(* missing_channel_policy "skip", copied to the output with values         *)
(* identical to the input and listed in meta.__background__.channels_skipped, *)
(* where no matched channel is listed; under "error" the call fails and    *)
(* returns no payload.                                                     *)
(***************************************************************************)
SkippedKeys ==
  { Elements(heap, last.out, "meta.__background__.channels_skipped")[i].s :
      i \in 1..Len(Elements(heap, last.out, "meta.__background__.channels_skipped")) }

C4_UnmatchedChannels ==
  BgCall =>
    /\ (last.params.missing_channel_policy = "error" /\ UnmatchedSet # {})
         => (last.err # "none" /\ last.out = None)
    /\ last.err = "none" =>
         /\ SkippedKeys = { ExpItems[idx].k : idx \in UnmatchedSet }
         /\ Len(Elements(heap, last.out, "meta.__background__.channels_skipped"))
              = Cardinality(UnmatchedSet)
         /\ \A idx \in UnmatchedSet :
              /\ HasKey(OutItems, OutKey(idx))
              /\ OutValues(idx) = ExpValues(idx)

\* by_index with a background of fewer channels: one channel subtracted, one skipped
C4_Witness ==
  /\ BgReturned
  /\ last.params.match_mode = "by_index"
  /\ last.params.missing_channel_policy = "skip"
  /\ MatchedSet # {}
  /\ UnmatchedSet # {}
  /\ \A idx \in MatchedSet : OutValues(idx) # ExpValues(idx)

(***************************************************************************)
(* C5: _interp(x, xp, fp) returns one value per element of x: the first    *)
(* value of fp at or before the first sample of xp, the last at or after   *)
(* the last, and the linear interpolation between the two surrounding      *)
(* samples elsewhere, for every background length of at least one sample.  *)
(***************************************************************************)
LinearInterpolation(x, xp, fp) ==
  [i \in 1..Len(x) |->
     IF RLe(x[i], xp[1]) THEN fp[1]
     ELSE IF RLe(xp[Len(xp)], x[i]) THEN fp[Len(fp)]
     ELSE LET k == CHOOSE j \in 1..(Len(xp) - 1) : RLt(xp[j], x[i]) /\ RLe(x[i], xp[j + 1])
          IN RAdd(fp[k], RDiv(RMul(RSub(x[i], xp[k]), RSub(fp[k + 1], fp[k])),
                              RSub(xp[k + 1], xp[k])))]

C5_InterpolatedOntoExperimentGrid ==
  (last.op = "_interp" /\ Len(last.args[2]) = Len(last.args[3]) /\ Len(last.args[2]) >= 1) =>
    /\ last.err = "none"
    /\ last.out = LinearInterpolation(last.args[1], last.args[2], last.args[3])

(***************************************************************************)
(* C6: meta.__history__ is an append-only log.  The history of the output  *)
(* of a successful detect_candidate_peaks is the history of its input      *)
(* followed by one entry with op_name "detect_candidate_peaks"; that of a  *)
(* successful background_subtract_one is the history of the experiment     *)
(* input followed by one entry with op_name "background_subtract" when     *)
(* record_history is true, and the history of the input when it is false.  *)
(***************************************************************************)
History(h, p) == Elements(h, p, "meta.__history__")

Appended(before, after, op_name) ==
  /\ Len(after) = Len(before) + 1
  /\ SubSeq(after, 1, Len(before)) = before
  /\ after[Len(after)].t = "rec"
  /\ after[Len(after)].r.op_name = op_name

C6_HistoryAppendOnly ==
  /\ (last.op = "detect_candidate_peaks" /\ last.err = "none") =>
       Appended(History(last.pre, last.args[1]), History(heap, last.out),
                "detect_candidate_peaks")
  /\ (BgReturned /\ last.params.record_history) =>
       Appended(History(last.pre, last.args[1]), History(heap, last.out),
                "background_subtract")
  /\ (BgReturned /\ ~last.params.record_history) =>
       History(heap, last.out) = History(last.pre, last.args[1])

\* detection on the output of a background subtraction of a payload that
\* came with a history: three entries, the oldest first
C6_Witness ==
  /\ last.op = "detect_candidate_peaks"
  /\ last.err = "none"
  /\ Len(History(heap, last.out)) = 3
  /\ History(heap, last.out)[1] = HistoryEntry0
  /\ History(heap, last.out)[2].r.op_name = "background_subtract"

(***************************************************************************)
(* C7: every payload returned by background_subtract_one has meta.__uid__  *)
(* present (the experiment input's when it had one, otherwise the          *)
(* identifier computed from meta.file, meta.shot, meta.scope), has         *)
(* meta.__background__ = {uid, source, channels_skipped} with a non-null   *)
(* uid (the background's meta.__uid__ or its computed identifier), and the *)
(* history entry the call appends carries that output_uid and that         *)
(* background_uid.                                                         *)
(***************************************************************************)
MetaOf(h, p) == Entries(h, p, "meta")
Background == Entries(heap, last.out, "meta.__background__")

C7_UidAndBackgroundRecorded ==
  BgReturned =>
    /\ HasKey(MetaOf(heap, last.out), "__uid__")
    /\ GetKey(MetaOf(heap, last.out), "__uid__") =
         IF HasKey(MetaOf(last.pre, last.args[1]), "__uid__")
         THEN GetKey(MetaOf(last.pre, last.args[1]), "__uid__")
         ELSE Str(compute_identifier(last.pre, last.args[1], IdSpec(UidPaths)))
    /\ Keys(Background) = <<"uid", "source", "channels_skipped">>
    /\ GetKey(Background, "uid") # None
    /\ GetKey(Background, "uid") =
         IF HasKey(MetaOf(last.pre, last.args[2]), "__uid__")
            /\ Truthy(GetKey(MetaOf(last.pre, last.args[2]), "__uid__"))
         THEN GetKey(MetaOf(last.pre, last.args[2]), "__uid__")
         ELSE Str(compute_identifier(last.pre, last.args[2], IdSpec(UidPaths)))
    /\ GetKey(Background, "source") =
         IF HasKey(MetaOf(last.pre, last.args[2]), "source")
         THEN GetKey(MetaOf(last.pre, last.args[2]), "source")
         ELSE None
    /\ last.params.record_history =>
         /\ History(heap, last.out) # <<>>
         /\ History(heap, last.out)[Len(History(heap, last.out))].r.output_uid
              = GetKey(MetaOf(heap, last.out), "__uid__")
         /\ History(heap, last.out)[Len(History(heap, last.out))].r.background_uid
              = GetKey(Background, "uid")

\* an experiment payload that came with a uid, and a background whose empty
\* uid makes the call compute one from its scope
C7_Witness ==
  /\ BgReturned
  /\ last.params.record_history
  /\ HasKey(MetaOf(last.pre, last.args[1]), "__uid__")
  /\ GetKey(MetaOf(heap, last.out), "__uid__") = Str("u1")
  /\ HasKey(MetaOf(last.pre, last.args[2]), "__uid__")
  /\ GetKey(MetaOf(last.pre, last.args[2]), "__uid__") = Str("")
  /\ GetKey(Background, "uid") = Str("S2")

(***************************************************************************)
(* C8: for both operators an invalid value of an enumerated parameter      *)
(* (time_align, match_mode, missing_channel_policy; polarity,              *)
(* noise_method) makes the call fail with a spec/value error, for every    *)
(* input payload, one with an empty channel mapping included: no call with *)
(* an invalid enumerated value returns a payload.                          *)
(***************************************************************************)
ValidBgEnums(params) ==
  /\ params.time_align \in {"require_equal", "interp_bg_to_exp"}
  /\ params.match_mode \in {"by_key", "by_index"}
  /\ params.missing_channel_policy \in {"skip", "error"}

ValidDetectEnums(params) ==
  /\ params.polarity \in {"preserve", "invert", "auto", "normalized"}
  /\ params.noise_method \in {"rms", "mad", "std_pretrigger"}

C8_InvalidEnumFailsFast ==
  (\/ BgCall /\ ~ValidBgEnums(last.params)
   \/ last.op = "detect_candidate_peaks" /\ ~ValidDetectEnums(last.params)) =>
    /\ last.err \in {"ValueError", "SpecError"}
    /\ last.out = None

(***************************************************************************)
(* C9: in the output of detect_candidate_peaks, for every channel, any two *)
(* distinct reported peaks have sample indices that differ by at least     *)
(* min_distance_samples, also after saturation rejection and the           *)
(* max_peaks_per_channel cap.                                              *)
(***************************************************************************)
DetectReturned == last.op = "detect_candidate_peaks" /\ last.err = "none"

ByChannel == Entries(heap, last.out, "events.candidate_peaks.by_channel")

Distance(a, b) == IF a < b THEN b - a ELSE a - b

C9_DeadTimeEnforced ==
  DetectReturned =>
    \A c \in 1..Len(ByChannel) :
      \A a, b \in 1..Len(ByChannel[c].v.r.i) :
        a # b => Distance(ByChannel[c].v.r.i[a], ByChannel[c].v.r.i[b])
                   >= last.params.min_distance_samples

\* two peaks reported, and between them a sample over the threshold whose
\* neighbours are not: a candidate of its own, consumed by the dead time
C9_Witness ==
  /\ DetectReturned
  /\ last.params.min_distance_samples > 1
  /\ ~last.params.max_peaks_per_channel.some
  /\ ~last.params.reject_saturated
  /\ \E c \in 1..Len(ByChannel) :
       LET r == ByChannel[c].v.r
           y == heap[GetKey(Entries(heap, last.out, "data.channels"), ByChannel[c].k).a].e
       IN /\ Len(r.i) = 2
          /\ \E s \in (r.i[1] + 2)..(r.i[2] - 2) :
               /\ GtFloat(y[s + 1], r.threshold)
               /\ ~GtFloat(y[s], r.threshold)
               /\ ~GtFloat(y[s + 2], r.threshold)

(***************************************************************************)
(* C10: in the greedy left-to-right sweep of _apply_deadtime every         *)
(* candidate is consumed by exactly one window, each retained peak is a    *)
(* candidate of its window with amplitude greater than or equal to that of *)
(* every candidate consumed there, the earlier candidate winning ties; in  *)
(* particular two candidates closer than min_distance, the earlier of      *)
(* which opens a window, collapse to one reported peak at least as large   *)
(* as both, and when they are the only candidates that peak is the larger  *)
(* of the two.                                                             *)
(***************************************************************************)
DeadtimeCall == last.op = "_apply_deadtime"
Candidates == SortByIndex(last.args[1])
Windows == last.out.windows
Retained == last.out.result

WindowOf(j) == CHOOSE k \in 1..Len(Windows) : Windows[k].from <= j /\ j <= Windows[k].to

Larger(p, q) == IF RLt(p.amp, q.amp) THEN q ELSE p

C10_HigherPeakKept ==
  DeadtimeCall =>
    /\ Len(Retained) = Len(Windows)
    /\ \A j \in 1..Len(Candidates) :
         Cardinality({ k \in 1..Len(Windows) : Windows[k].from <= j /\ j <= Windows[k].to }) = 1
    /\ \A k \in 1..Len(Windows) :
         /\ Retained[k] = Windows[k].peak
         /\ \E j \in Windows[k].from..Windows[k].to : Candidates[j] = Retained[k]
         /\ \A j \in Windows[k].from..Windows[k].to :
              /\ RLe(Candidates[j].amp, Retained[k].amp)
              /\ Candidates[j].amp = Retained[k].amp => Retained[k].i <= Candidates[j].i
    /\ \A a, b \in 1..Len(Candidates) :
         (/\ a < b
          /\ Candidates[b].i - Candidates[a].i < last.params.min_distance
          /\ Windows[WindowOf(a)].from = a) =>
           /\ WindowOf(b) = WindowOf(a)
           /\ RLe(Candidates[a].amp, Retained[WindowOf(a)].amp)
           /\ RLe(Candidates[b].amp, Retained[WindowOf(a)].amp)
           /\ Len(Candidates) = 2 => Retained = <<Larger(Candidates[a], Candidates[b])>>

\* two candidates closer than min_distance, the later one the larger,
\* handed over in descending order of index: one peak reported, the later
C10_Witness ==
  /\ DeadtimeCall
  /\ Len(last.args[1]) = 2
  /\ last.args[1][1].i > last.args[1][2].i
  /\ last.args[1][1].i - last.args[1][2].i < last.params.min_distance
  /\ RLt(last.args[1][2].amp, last.args[1][1].amp)
  /\ Retained = <<last.args[1][1]>>

(***************************************************************************)
(* C11: threshold monotonicity.  For a fixed trace and otherwise fixed     *)
(* parameters, raising threshold_sigma never increases the number of peaks *)
(* detect_candidate_peaks reports for a channel.  The payload handed to    *)
(* the call carries the peaks and the parameters of the detection before.  *)
(***************************************************************************)
PrevByChannel == Entries(last.pre, last.args[1], "events.candidate_peaks.by_channel")
PrevParams == Get(last.pre, last.args[1], "events.candidate_peaks.params")

ThresholdRaised ==
  /\ DetectReturned
  /\ PrevParams.t = "rec"
  /\ [PrevParams.r EXCEPT !.threshold_sigma = last.params.threshold_sigma] = last.params
  /\ RLt(PrevParams.r.threshold_sigma, last.params.threshold_sigma)

C11_ThresholdMonotone ==
  ThresholdRaised =>
    \A c \in 1..Len(ByChannel) :
      Len(ByChannel[c].v.r.i) <= Len(GetKey(PrevByChannel, ByChannel[c].k).r.i)

(***************************************************************************)
(* C12: the payload shape invariant is preserved.  If in the experiment    *)
(* payload and in the background payload every channel array has the       *)
(* length of that payload's data.time, then in every payload returned by   *)
(* background_subtract_one and by detect_candidate_peaks data.time is      *)
(* unchanged and every array under data.channels has its length.           *)
(***************************************************************************)
TimeOf(h, p) == Elements(h, p, "data.time")

Shaped(h, p) ==
  \A c \in 1..Len(Entries(h, p, "data.channels")) :
    /\ IsList(h, Entries(h, p, "data.channels")[c].v)
    /\ Len(h[Entries(h, p, "data.channels")[c].v.a].e) = Len(TimeOf(h, p))

C12_ShapePreserved ==
  (/\ BgReturned \/ DetectReturned
   /\ \A i \in 1..Len(last.args) : Shaped(last.pre, last.args[i])) =>
    /\ TimeOf(heap, last.out) = TimeOf(last.pre, last.args[1])
    /\ Shaped(heap, last.out)

(***************************************************************************)
(* C13: detect_candidate_peaks fails whenever a selected channel's length  *)
(* differs from the length of the time axis, and then returns no payload,  *)
(* even if other selected channels were processed before; the error is a   *)
(* ValueError whose message names the channel (the first such channel in   *)
(* the order of selection, unless the noise estimation of a channel        *)
(* selected before it has failed already).                                 *)
(***************************************************************************)
DetectCall == last.op = "detect_candidate_peaks"
InChannels == Entries(last.pre, last.args[1], last.params.channels_path)
InTime == Elements(last.pre, last.args[1], last.params.time_path)

Selected == IF last.params.channel_keys # <<>> THEN last.params.channel_keys ELSE Keys(InChannels)

WrongLength(k) ==
  /\ HasKey(InChannels, Selected[k])
  /\ Len(last.pre[GetKey(InChannels, Selected[k]).a].e) # Len(InTime)

NoiseFails ==
  \/ last.params.noise_method \notin {"mad", "rms", "std_pretrigger"}
  \/ last.params.noise_method = "std_pretrigger" /\ ~last.params.pretrigger_time_range.some

C13_LengthMismatchFails ==
  DetectCall =>
    \A k \in 1..Len(Selected) :
      (WrongLength(k) /\ \A j \in 1..(k - 1) : ~WrongLength(j)) =>
        /\ last.err # "none"
        /\ last.out = None
        /\ pool[1] = last.args[1]
        /\ (NoiseFails /\ \E j \in 1..(k - 1) : HasKey(InChannels, Selected[j]))
           \/ /\ last.err = "ValueError"
              /\ last.msg = <<"Channel", Selected[k], "length",
                              Len(last.pre[GetKey(InChannels, Selected[k]).a].e),
                              "does not match time length", Len(InTime)>>

\* the statement without the exception for an earlier failure: whenever a
\* selected channel has the wrong length the call fails with a ValueError
\* that names such a channel
C13_AnyMismatchNamesChannel ==
  DetectCall =>
    ((\E k \in 1..Len(Selected) : WrongLength(k)) =>
       /\ last.err = "ValueError"
       /\ last.out = None
       /\ Len(last.msg) >= 2
       /\ \E k \in 1..Len(Selected) : WrongLength(k) /\ last.msg[2] = Selected[k])

\* channel B was processed, then channel A was found to be too long
C13_Witness ==
  /\ DetectCall
  /\ last.params.channel_keys = <<"B", "A">>
  /\ ~NoiseFails
  /\ ~WrongLength(1)
  /\ WrongLength(2)
  /\ last.err = "ValueError"
  /\ last.msg[2] = "A"

(***************************************************************************)
(* C14: detection runs on s * y, where s = -1 for polarity "invert",       *)
(* s = +1 for "preserve" and for "normalized", and for "auto" s = +1       *)
(* exactly when (p99 - median) >= (median - p1) of the raw trace and -1    *)
(* otherwise; the reported amplitudes are values of s * y.                 *)
(***************************************************************************)
\* the q-th percentile of y, interpolated linearly between order statistics
PercentileLinear(y, q) ==
  LET f == ((Len(y) - 1) * q) \div 100
      rem == ((Len(y) - 1) * q) % 100
  IN IF rem = 0 THEN Sorted(y)[f + 1]
     ELSE RAdd(Sorted(y)[f + 1], RMul(Q(rem, 100), RSub(Sorted(y)[f + 2], Sorted(y)[f + 1])))

PolaritySign(polarity, y) ==
  IF polarity = "invert" THEN -1
  ELSE IF polarity = "auto"
  THEN IF RLe(RSub(PercentileLinear(y, 50), PercentileLinear(y, 1)),
              RSub(PercentileLinear(y, 99), PercentileLinear(y, 50)))
       THEN 1 ELSE -1
  ELSE 1

Signed(sign, y) == [i \in 1..Len(y) |-> RMul(N(sign), y[i])]

RawTrace(key) == last.pre[GetKey(InChannels, key).a].e

C14_PolarityTransform ==
  (DetectReturned /\ ValidDetectEnums(last.params)) =>
    \A c \in 1..Len(ByChannel) :
      /\ ByChannel[c].v.r =
           ProcessChannel(numpy, [last.params EXCEPT !.polarity = "preserve"], InTime,
                          ByChannel[c].k,
                          Signed(PolaritySign(last.params.polarity, RawTrace(ByChannel[c].k)),
                                 RawTrace(ByChannel[c].k))).record
      /\ \A j \in 1..Len(ByChannel[c].v.r.i) :
           ByChannel[c].v.r.amp[j] =
             RMul(N(PolaritySign(last.params.polarity, RawTrace(ByChannel[c].k))),
                  RawTrace(ByChannel[c].k)[ByChannel[c].v.r.i[j] + 1])

\* a dominant negative pulse under "auto": reported once, with positive
\* amplitude, at the position of the pulse
C14_Witness ==
  /\ DetectReturned
  /\ last.params.polarity = "auto"
  /\ RawTrace("A") = <<N(0), N(0), N(-3), N(0), N(0)>>
  /\ GetKey(ByChannel, "A").r.i = <<2>>
  /\ GetKey(ByChannel, "A").r.amp = <<N(3)>>

(***************************************************************************)
(* Structural set: one call of _clone_with_set on the experiment payload.  *)
(***************************************************************************)
\* a path as written and the tokens it stands for
Target(path, tokens) == [path |-> path, tokens |-> tokens]

SetTargets ==
  { Target("data.channels.A", <<"data", "channels", "A">>),
    Target("data['channels'].B", <<"data", "channels", "B">>),
    Target("meta.__uid__", <<"meta", "__uid__">>),
    Target("meta.a.b", <<"meta", "a", "b">>),
    Target("x", <<"x">>),
    Target("events.candidate_peaks.by_channel",
           <<"events", "candidate_peaks", "by_channel">>),
    Target("data.time.k", <<"data", "time", "k">>),
    Target("meta.history.last", <<"meta", "history", "last">>) }

InitSet ==
  \E em \in MetaVariants, bm \in BgMetaVariants, np \in BOOLEAN :
    Start(Ramp(2, 1), <<[k |-> "A", v |-> Samples(2, 1)]>>, em,
          Ramp(2, 1), <<[k |-> "A", v |-> Samples(2, 0)]>>, bm, np)

NextSet == SetPath(SetTargets, 1)

SpecSet == InitSet /\ [][NextSet]_vars

SetCall == last.op = "_clone_with_set"

\* every object the tokens pass through in the payload, the parent of the
\* last token included, is a mapping
RECURSIVE MappingsAlong(_, _, _)
MappingsAlong(h, v, tokens) ==
  \/ tokens = <<>>
  \/ /\ IsDict(h, v)
     /\ HasKey(h[v.a].e, Head(tokens))
          => MappingsAlong(h, GetKey(h[v.a].e, Head(tokens)), Tail(tokens))

\* v is a chain of one-key mappings along the tokens
RECURSIVE CreatedChain(_, _, _)
CreatedChain(h, v, tokens) ==
  \/ tokens = <<>>
  \/ /\ IsDict(h, v)
     /\ KeySet(h[v.a].e) = {Head(tokens)}
     /\ CreatedChain(h, GetKey(h[v.a].e, Head(tokens)), Tail(tokens))

\* new differs from old along the tokens only: the same keys plus the token
\* at each level, equal values under every other key, and a fresh chain of
\* mappings from the first token the old payload lacks
RECURSIVE SameOutside(_, _, _, _, _)
SameOutside(h0, old, h1, new, tokens) ==
  \/ tokens = <<>>
  \/ /\ IsDict(h1, new)
     /\ KeySet(h1[new.a].e) = KeySet(h0[old.a].e) \cup {Head(tokens)}
     /\ \A k \in KeySet(h0[old.a].e) \ {Head(tokens)} :
          Deref(h1, GetKey(h1[new.a].e, k)) = Deref(h0, GetKey(h0[old.a].e, k))
     /\ IF HasKey(h0[old.a].e, Head(tokens))
        THEN SameOutside(h0, GetKey(h0[old.a].e, Head(tokens)),
                         h1, GetKey(h1[new.a].e, Head(tokens)), Tail(tokens))
        ELSE CreatedChain(h1, GetKey(h1[new.a].e, Head(tokens)), Tail(tokens))

\* C15: when every existing intermediate along the path is a mapping, the
\* structural set (either implementation) succeeds, resolving the same path
\* in the returned root gives a value equal to the one set, the original
\* root is unchanged, and the result differs from the original along the
\* path only, missing intermediates being created as mappings
C15_SetThenResolve ==
  (SetCall /\ MappingsAlong(last.pre, last.args[1], last.params.tokens)) =>
    /\ last.err = "none"
    /\ resolve_path(heap, last.out, last.params.path).err = "none"
    /\ Deref(heap, resolve_path(heap, last.out, last.params.path).v)
         = Deref(last.pre, last.params.value)
    /\ Deref(heap, last.args[1]) = Deref(last.pre, last.args[1])
    /\ SameOutside(last.pre, last.args[1], heap, last.out, last.params.tokens)

\* a set through two missing intermediates of a payload without meta, the
\* value being the channels mapping
C15_Witness ==
  /\ SetCall /\ last.err = "none"
  /\ last.params.tokens = <<"meta", "a", "b">>
  /\ ~HasKey(last.pre[last.args[1].a].e, "meta")
  /\ IsDict(last.pre, last.params.value)
  /\ Deref(heap, Get(heap, last.out, "meta.a.b")) = Deref(last.pre, last.params.value)

(***************************************************************************)
(* Path resolution: one call of resolve_path on the experiment payload.    *)
(***************************************************************************)
ResolveTargets ==
  { Target("data.channels.A", <<"data", "channels", "A">>),
    Target("data.channels['A']", <<"data", "channels", "A">>),
    Target("data[\"channels\"].A", <<"data", "channels", "A">>),
    Target("['data']['time']", <<"data", "time">>),
    Target("data.time.k", <<"data", "time", "k">>),
    Target("data.missing.A", <<"data", "missing", "A">>),
    Target("meta.shot", <<"meta", "shot">>),
    Target("meta['shot']", <<"meta", "shot">>),
    Target("meta.scope.x", <<"meta", "scope", "x">>),
    Target("meta.__history__", <<"meta", "__history__">>),
    Target("type.x.y", <<"type", "x", "y">>) }

NextRes == ResolvePath(ResolveTargets, 1)

SpecRes == InitSet /\ [][NextRes]_vars

ResolveCall == last.op = "resolve_path"

\* the first n tokens lead from v through mappings that hold them
RECURSIVE Reaches(_, _, _, _)
Reaches(h, v, tokens, n) ==
  \/ n = 0
  \/ /\ IsDict(h, v) /\ HasKey(h[v.a].e, Head(tokens))
     /\ Reaches(h, GetKey(h[v.a].e, Head(tokens)), Tail(tokens), n - 1)

\* the value the first n tokens lead to
RECURSIVE ValueAt(_, _, _, _)
ValueAt(h, v, tokens, n) ==
  IF n = 0 THEN v ELSE ValueAt(h, GetKey(h[v.a].e, Head(tokens)), Tail(tokens), n - 1)

\* the positions of the tokens at which the walk cannot go on: the tokens
\* before lead to a value that is no mapping or does not hold this token
FailingTokens(h, v, tokens) ==
  { k \in 1..Len(tokens) : Reaches(h, v, tokens, k - 1) /\ ~Reaches(h, v, tokens, k) }

\* C16: for a well-formed path, resolve_path returns the value the tokens
\* lead to through nested mappings; it fails, with PathResolutionError,
\* exactly when some token is absent from the current mapping or the
\* current value is not a mapping while tokens remain; the message names
\* the failing token and the prefix already traversed; and every way of
\* writing the same tokens (dotted or bracketed) resolves alike
C16_ResolveWalksMappings ==
  ResolveCall =>
    LET tokens == last.params.tokens
        root == last.args[1]
        failing == FailingTokens(last.pre, root, tokens)
    IN /\ heap = last.pre
       /\ (last.err = "PathResolutionError") <=> (failing # {})
       /\ (failing = {}) =>
            /\ last.err = "none"
            /\ last.out = ValueAt(last.pre, root, tokens, Len(tokens))
       /\ \A k \in failing :
            /\ last.msg[2] = tokens[k]
            /\ last.msg[4] = Join("/", SubSeq(tokens, 1, k - 1))
            /\ last.msg[1] = IF IsDict(last.pre, ValueAt(last.pre, root, tokens, k - 1))
                             THEN "Missing key" ELSE "Cannot traverse into"
       /\ \A other \in ResolveTargets :
            other.tokens = tokens =>
              LET r == resolve_path(last.pre, root, other.path)
              IN r.err = last.err /\ r.v = last.out

\* a walk that stops at the third token because the time axis is a list
C16_Witness ==
  /\ ResolveCall
  /\ last.params.path = "data.time.k"
  /\ last.err = "PathResolutionError"
  /\ last.msg = <<"Cannot traverse into", "k", "because object at", "data/time",
                  "is of type", "list">>

(***************************************************************************)
(* Path parsing: one call of _parse_path on a path written as a sequence   *)
(* of at most MaxPieces pieces.                                            *)
(***************************************************************************)
MaxPieces == 3

\* identifiers, the dot, whitespace, bracketed keys in matching quotes, and
\* brackets that are open, unquoted or closed by the other quote
Identifiers == {"a", "b1"}
QuotedKeys == {"['k']", "[\"k 2\"]"}
BadBrackets == {"[k]", "['k\"]"}
Pieces == Identifiers \cup QuotedKeys \cup BadBrackets \cup {".", " ", "["}

RECURSIVE Concat(_)
Concat(pieces) == IF pieces = <<>> THEN "" ELSE Head(pieces) \o Concat(Tail(pieces))

Written(pieces) == [path |-> Concat(pieces), pieces |-> pieces]

PathsOf(n) == { Written(pieces) : pieces \in UNION { [1..m -> Pieces] : m \in 0..n } }

InitParse ==
  Start(Ramp(2, 1), <<[k |-> "A", v |-> Samples(2, 1)]>>, NoMeta,
        Ramp(2, 1), <<[k |-> "A", v |-> Samples(2, 0)]>>, NoMeta, FALSE)

NextParse == ParsePath(PathsOf(MaxPieces), 1)

SpecParse == InitParse /\ [][NextParse]_vars

ParseCall == last.op = "_parse_path"

\* the malformations of the path grammar, read off the pieces
WhitespaceOnly(pieces) == \A i \in 1..Len(pieces) : pieces[i] = " "
TrailingDot(pieces) == pieces # <<>> /\ pieces[Len(pieces)] = "."
Unterminated(pieces) ==
  \E i \in 1..Len(pieces) :
    pieces[i] = "[" /\ \A j \in (i + 1)..Len(pieces) : pieces[j] \notin QuotedKeys \cup BadBrackets
\* an open bracket closed by the bracket of a later piece holds that
\* piece's open bracket, so its contents are no quoted string either
BadContents(pieces) ==
  \E i \in 1..Len(pieces) : pieces[i] \in BadBrackets \cup {"["}
JunkAfterBracket(pieces) ==
  \E i \in 1..(Len(pieces) - 1) :
    pieces[i] \in QuotedKeys \cup BadBrackets /\ pieces[i + 1] \in Identifiers \cup {" "}

Malformed(pieces) ==
  \/ WhitespaceOnly(pieces) \/ TrailingDot(pieces) \/ Unterminated(pieces)
  \/ BadContents(pieces) \/ JunkAfterBracket(pieces)

\* a bare segment that is empty: a dot at the start, or a dot right after a dot
EmptySegment(pieces) ==
  \E i \in 1..Len(pieces) : pieces[i] = "." /\ (i = 1 \/ pieces[i - 1] = ".")

\* dotted identifiers and bracketed quoted keys: identifiers and quoted keys
\* only, a dot between an identifier or key and the identifier after it
DottedPath(pieces) ==
  /\ pieces # <<>>
  /\ \A i \in 1..Len(pieces) : pieces[i] \in Identifiers \cup QuotedKeys \cup {"."}
  /\ pieces[1] # "."
  /\ pieces[Len(pieces)] # "."
  /\ \A i \in 2..Len(pieces) :
       /\ pieces[i] = "." => pieces[i - 1] # "."
       /\ pieces[i] \in Identifiers => pieces[i - 1] = "."
       /\ pieces[i] \in QuotedKeys => pieces[i - 1] # "."

\* the key a piece stands for
KeyOf(piece) ==
  IF piece = "['k']" THEN "k" ELSE IF piece = "[\"k 2\"]" THEN "k 2" ELSE piece

RECURSIVE TokensOf(_)
TokensOf(pieces) ==
  IF pieces = <<>> THEN <<>>
  ELSE IF Head(pieces) = "." THEN TokensOf(Tail(pieces))
  ELSE <<KeyOf(Head(pieces))>> \o TokensOf(Tail(pieces))

C18_EmptySegmentRejected ==
  (ParseCall /\ EmptySegment(last.params.pieces)) =>
    last.err # "none" /\ last.out = <<>>

(***************************************************************************)
(* Identifiers: one call of compute_identifier on a payload whose meta     *)
(* holds a shot and a scope_id.                                            *)
(***************************************************************************)
IdValues ==
  { IntV(123), Str("S1"), Str("a b"), Str("a  b"), Str("a_b"), Str("x"), Str("x__x"),
    Str("_/_"), Str("_"), Str(""), None }

IdMetas ==
  { DictMeta(<<[k |-> "shot", v |-> a], [k |-> "scope_id", v |-> b]>>) :
      a \in IdValues, b \in IdValues }
  \cup { DictMeta(<<[k |-> "shot", v |-> a]>>) : a \in IdValues } \cup { NoMeta }

InitId ==
  \E em \in IdMetas :
    Start(Ramp(2, 1), <<[k |-> "A", v |-> Samples(2, 1)]>>, em,
          Ramp(2, 1), <<[k |-> "A", v |-> Samples(2, 0)]>>, NoMeta, FALSE)

IdTargets ==
  { Target("meta.shot", <<"meta", "shot">>),
    Target("meta['scope_id']", <<"meta", "scope_id">>),
    Target("meta.shot.unit", <<"meta", "shot", "unit">>) }

\* the sequences of distinct id paths
IdPathSeqs ==
  { seq \in UNION { [1..n -> IdTargets] : n \in 0..Cardinality(IdTargets) } :
      \A i, j \in 1..Len(seq) : seq[i] = seq[j] => i = j }

NextId == ComputeIdentifier(IdPathSeqs, 1)

SpecId == InitId /\ [][NextId]_vars

IdCall == last.op = "compute_identifier"

\* the stringified values of the targets that resolve to a value other
\* than None, in the order of the targets
RECURSIVE SurvivingParts(_, _, _)
SurvivingParts(h, root, targets) ==
  IF targets = <<>> THEN <<>>
  ELSE LET tokens == Head(targets).tokens
       IN (IF /\ Reaches(h, root, tokens, Len(tokens))
              /\ ValueAt(h, root, tokens, Len(tokens)) # None
           THEN <<PyStr(ValueAt(h, root, tokens, Len(tokens)))>>
           ELSE <<>>)
          \o SurvivingParts(h, root, Tail(targets))

Allowed(c) ==
  \E i \in 1..Len(AllowedChars) : SubSeq(AllowedChars, i, i) = c

\* every character outside the allowed set replaced with "_"
ReplaceEach(s) ==
  [i \in 1..Len(s) |-> IF Allowed(SubSeq(s, i, i)) THEN SubSeq(s, i, i) ELSE "_"]

\* every maximal run of characters outside the allowed set replaced with
\* one "_": of a run, only the first character leaves a "_"
ReplaceRuns(s) ==
  [i \in 1..Len(s) |->
     IF Allowed(SubSeq(s, i, i)) THEN SubSeq(s, i, i)
     ELSE IF i > 1 /\ ~Allowed(SubSeq(s, i - 1, i - 1)) THEN "" ELSE "_"]

\* the characters joined, without the "_" leading and trailing them, and
\* "part" when nothing is left
Trimmed(chars) ==
  LET text == Concat(chars)
      kept == { i \in 1..Len(text) : SubSeq(text, i, i) # "_" }
  IN IF kept = {} THEN "part"
     ELSE SubSeq(text, CHOOSE i \in kept : \A j \in kept : i <= j,
                       CHOOSE i \in kept : \A j \in kept : i >= j)

RECURSIVE JoinedBy(_, _)
JoinedBy(joiner, parts) ==
  IF Len(parts) = 0 THEN ""
  ELSE IF Len(parts) = 1 THEN parts[1]
  ELSE JoinedBy(joiner, SubSeq(parts, 1, Len(parts) - 1)) \o joiner \o parts[Len(parts)]

\* the parts the identifier is joined from: the surviving parts, or the
\* fallback alone when there is none
PartsOf(h, root, params) ==
  IF SurvivingParts(h, root, params.targets) = <<>> THEN <<params.id_spec.fallback>>
  ELSE SurvivingParts(h, root, params.targets)

\* the claim as stated: every character outside the set becomes a "_"
C19_EveryCharacterReplaced ==
  IdCall =>
    LET parts == PartsOf(last.pre, last.args[1], last.params)
    IN last.out =
         Str(JoinedBy(last.params.id_spec.joiner,
               [i \in 1..Len(parts) |->
                  IF last.params.id_spec.sanitize THEN Trimmed(ReplaceEach(parts[i]))
                  ELSE parts[i]]))

\* C19 (amended): compute_identifier returns the joiner-joined sequence, in
\* id_paths order, of the stringified values of the paths that resolve to a
\* value other than None, or the fallback alone when none does; when
\* sanitize is set, in each part every maximal run of characters outside
\* [A-Za-z0-9_.-] is replaced with one "_", leading and trailing "_" are
\* trimmed, and an empty result becomes "part"
C19_IdentifierJoinsSanitizedParts ==
  IdCall =>
    LET parts == PartsOf(last.pre, last.args[1], last.params)
    IN last.out =
         Str(JoinedBy(last.params.id_spec.joiner,
               [i \in 1..Len(parts) |->
                  IF last.params.id_spec.sanitize THEN Trimmed(ReplaceRuns(parts[i]))
                  ELSE parts[i]]))

\* meta.shot = 123 and meta.scope_id = "S1" gave "123__S1"
C19_Witness ==
  /\ IdCall
  /\ Get(last.pre, last.args[1], "meta.shot") = IntV(123)
  /\ Get(last.pre, last.args[1], "meta.scope_id") = Str("S1")
  /\ last.params.id_spec = IdSpec(<<"meta.shot", "meta['scope_id']">>)
  /\ last.out = Str("123__S1")

\* the orders the targets can be put in
Orderings(targets) ==
  { seq \in [1..Len(targets) -> { targets[i] : i \in 1..Len(targets) }] :
      \A i, j \in 1..Len(seq) : seq[i] = seq[j] => i = j }

\* the call's parameters with the id paths in another order
Permuted(params, targets) ==
  [targets |-> targets,
   id_spec |-> [params.id_spec EXCEPT
                  !.id_paths = [i \in 1..Len(targets) |-> targets[i].path]]]

\* the values the targets resolve to, in the order of the targets, the
\* missing ones and None skipped
RECURSIVE ResolvedValues(_, _, _)
ResolvedValues(h, root, targets) ==
  IF targets = <<>> THEN <<>>
  ELSE LET tokens == Head(targets).tokens
       IN (IF /\ Reaches(h, root, tokens, Len(tokens))
              /\ ValueAt(h, root, tokens, Len(tokens)) # None
           THEN <<ValueAt(h, root, tokens, Len(tokens))>>
           ELSE <<>>)
          \o ResolvedValues(h, root, Tail(targets))

\* the parts as joined: sanitized when the IdSpec says so
JoinedParts(h, root, params) ==
  LET parts == PartsOf(h, root, params)
  IN [i \in 1..Len(parts) |->
        IF params.id_spec.sanitize THEN Trimmed(ReplaceRuns(parts[i])) ELSE parts[i]]

Characters(s) == { SubSeq(s, i, i) : i \in 1..Len(s) }

\* the identifier depends on the payload's contents and the IdSpec only:
\* a deep copy of the payload, held elsewhere, gets the same identifier,
\* and the call changes nothing
Deterministic ==
  /\ heap = last.pre
  /\ LET copy == DeepCopy(last.pre, last.args[1])
     IN last.out = Str(compute_identifier(copy.h, copy.v, last.params.id_spec))

\* the claim as stated: a permutation under which the resolved values
\* come in another order gives another identifier
C20_OrderSensitiveOnValues ==
  IdCall =>
    /\ Deterministic
    /\ \A other \in Orderings(last.params.targets) :
         ResolvedValues(last.pre, last.args[1], other)
             # ResolvedValues(last.pre, last.args[1], last.params.targets)
           => Str(compute_identifier(last.pre, last.args[1],
                                     Permuted(last.params, other).id_spec)) # last.out

\* C20 (amended): compute_identifier is deterministic, and permuting
\* id_paths changes the identifier whenever the sequence of parts joined
\* (the sanitized strings of the values that resolve to other than None)
\* changes, the joiner is not empty and no part holds a character of it
C20_OrderSensitiveOnParts ==
  IdCall =>
    /\ Deterministic
    /\ \A other \in Orderings(last.params.targets) :
         ( /\ last.params.id_spec.joiner # ""
           /\ JoinedParts(last.pre, last.args[1], Permuted(last.params, other))
                # JoinedParts(last.pre, last.args[1], last.params)
           /\ \A i \in 1..Len(JoinedParts(last.pre, last.args[1], last.params)) :
                Characters(JoinedParts(last.pre, last.args[1], last.params)[i])
                  \cap Characters(last.params.id_spec.joiner) = {} )
           => Str(compute_identifier(last.pre, last.args[1],
                                     Permuted(last.params, other).id_spec)) # last.out

\* two id paths with different parts: the identifier joined them in the
\* order given, and the other order gives another identifier
C20_Witness ==
  /\ IdCall
  /\ last.params.id_spec = IdSpec(<<"meta['scope_id']", "meta.shot">>)
  /\ last.out = Str("S1__123")
  /\ compute_identifier(last.pre, last.args[1], IdSpec(<<"meta.shot", "meta['scope_id']">>))
       = "123__S1"

(***************************************************************************)
(* Split: one call of split_payload on payloads with up to two channels    *)
(* whose meta is a mapping or absent.                                      *)
(***************************************************************************)
SplitChannels ==
  { <<>>,
    <<[k |-> "A", v |-> Samples(2, 1)]>>,
    <<[k |-> "A", v |-> Samples(2, 1)], [k |-> "B", v |-> Samples(2, 3)]>> }

SplitMetas ==
  { NoMeta,
    DictMeta(<<>>),
    DictMeta(<<[k |-> "shot", v |-> IntV(1)], [k |-> "scope", v |-> Str("S")]>>),
    [DictMeta(<<[k |-> "__uid__", v |-> Str("u1")]>>)
       EXCEPT !.hasHistory = TRUE, !.history = <<HistoryEntry0, HistoryEntry0>>] }

InitSplit ==
  \E exp_channels \in SplitChannels, em \in SplitMetas :
    Start(Ramp(2, 1), exp_channels, em,
          Ramp(2, 1), <<[k |-> "A", v |-> Samples(2, 0)]>>, NoMeta, FALSE)

SplitSpecs ==
  { [SplitSpec(source.path, source.mode) EXCEPT
       !.child_payload_target_path = target, !.id_spec = id_spec,
       !.child_key_template = template, !.attach_id_to_meta_path = attach,
       !.copy_policy = copy_policy] :
      source \in { [path |-> "data.channels", mode |-> "dict_keys"],
                   [path |-> "data.time", mode |-> "list_items"],
                   [path |-> "meta.__history__", mode |-> "list_items"],
                   [path |-> "data.channels", mode |-> "list_items"] },
      target \in { NoValue, Some(Str("data.selected")) },
      id_spec \in { NoValue,
                    Some([IdSpec(<<"meta.shot", "meta.scope">>) EXCEPT !.joiner = "-"]) },
      template \in { "{key}", "{pid}/{key}" },
      attach \in { "meta.__uid__", "meta.ids.child" },
      copy_policy \in { "shallow", "deep" } }

NextSplit == Split(SplitSpecs, 1)

SpecSplit == InitSplit /\ [][NextSplit]_vars

SplitCall == last.op = "split_payload"

\* the items of the source container: its entries in dict_keys mode, its
\* elements under their indices in list_items mode
SplitItems(h, root, spec) ==
  IF spec.split_mode = "dict_keys" THEN Entries(h, root, spec.source_path)
  ELSE [i \in 1..Len(Elements(h, root, spec.source_path)) |->
          [k |-> ToString(i - 1), v |-> Elements(h, root, spec.source_path)[i]]]

\* the source is a container of the kind the mode splits
SplitsContainer(h, root, spec) ==
  \/ spec.split_mode = "dict_keys" /\ IsDict(h, Get(h, root, spec.source_path))
  \/ spec.split_mode = "list_items" /\ IsList(h, Get(h, root, spec.source_path))

BaseId(h, root, spec) ==
  compute_identifier(h, root,
    IF spec.id_spec.some THEN spec.id_spec.v
    ELSE IdSpec(<<"meta.__uid__", "meta.file", "meta.shot", "meta.scope">>))

JoinerOf(spec) == IF spec.id_spec.some THEN spec.id_spec.v.joiner ELSE "__"

\* the id of the j-th item: baseId + joiner + itemKey, with "_n" appended
\* when n earlier items of the call gave the same id
ItemId(h, root, spec, j) ==
  LET items == SplitItems(h, root, spec)
      id == BaseId(h, root, spec) \o JoinerOf(spec) \o items[j].k
      n == Cardinality({ i \in 1..(j - 1) : items[i].k = items[j].k })
  IN IF n = 0 THEN id ELSE id \o "_" \o ToString(n)

\* the key the j-th item gets in its child, by the child key template
ItemChildKey(h, root, spec, j) ==
  IF spec.child_key_template = "{key}" THEN SplitItems(h, root, spec)[j].k
  ELSE BaseId(h, root, spec) \o "/" \o SplitItems(h, root, spec)[j].k

TargetPathOf(spec) ==
  IF spec.child_payload_target_path.some THEN spec.child_payload_target_path.v.s
  ELSE spec.source_path

\* C21: split_payload returns exactly one child per item of the source
\* container, each under the id baseId + joiner + itemKey; the child's
\* value at the target path is the single-entry mapping
\* {formattedChildKey: itemValue} and its value at attach_id_to_meta_path
\* is the id it is stored under
C21_OneChildPerItem ==
  (SplitCall /\ SplitsContainer(last.pre, last.args[1], last.params)) =>
    /\ last.err = "none"
    /\ IsDict(heap, last.out)
    /\ Len(heap[last.out.a].e) = Len(SplitItems(last.pre, last.args[1], last.params))
    /\ \A j \in 1..Len(SplitItems(last.pre, last.args[1], last.params)) :
         /\ HasKey(heap[last.out.a].e, ItemId(last.pre, last.args[1], last.params, j))
         /\ LET child == GetKey(heap[last.out.a].e,
                                ItemId(last.pre, last.args[1], last.params, j))
                held == Entries(heap, child, TargetPathOf(last.params))
            IN /\ Len(held) = 1
               /\ held[1].k = ItemChildKey(last.pre, last.args[1], last.params, j)
               /\ Deref(heap, held[1].v)
                    = Deref(last.pre, SplitItems(last.pre, last.args[1], last.params)[j].v)
               /\ Get(heap, child, last.params.attach_id_to_meta_path)
                    = Str(ItemId(last.pre, last.args[1], last.params, j))

\* the channels A and B of a payload of shot 1 and scope "S" were split
\* into the children "1__S__A" and "1__S__B"
C21_Witness ==
  /\ SplitCall /\ last.err = "none"
  /\ last.params.split_mode = "dict_keys"
  /\ KeySet(heap[last.out.a].e) = {"1__S__A", "1__S__B"}
  /\ KeySet(Entries(heap, GetKey(heap[last.out.a].e, "1__S__B"), "data.channels")) = {"B"}

(***************************************************************************)
(* Merge: one call of merge_payloads on a list of up to MaxMerge payloads  *)
(* drawn from two payloads with up to two channels each.                   *)
(***************************************************************************)
MaxMerge == 3

MergeChannelsExp ==
  { <<>>,
    <<[k |-> "A", v |-> Samples(2, 1)]>>,
    <<[k |-> "A", v |-> Samples(2, 1)], [k |-> "A_1", v |-> Samples(2, 5)]>> }

MergeChannelsBg ==
  { <<>>,
    <<[k |-> "A", v |-> Samples(2, 3)]>>,
    <<[k |-> "B", v |-> Samples(2, 7)], [k |-> "A", v |-> Samples(2, 3)]>> }

ShotMeta(n) == DictMeta(<<[k |-> "shot", v |-> IntV(n)]>>)

InitMerge ==
  \E exp_channels \in MergeChannelsExp, bg_channels \in MergeChannelsBg,
     em \in {NoMeta, ShotMeta(1)},
     bg \in {[shot |-> 1, step |-> 1], [shot |-> 2, step |-> 1], [shot |-> 2, step |-> 2]} :
    Start(Ramp(2, 1), exp_channels, em,
          Ramp(2, bg.step), bg_channels, ShotMeta(bg.shot), FALSE)

MergeSpecs ==
  { [MergeSpec("data.channels", "dict_union") EXCEPT
       !.collision_policy = collision_policy, !.require_same_timebase = require_same_timebase] :
      collision_policy \in {"error", "attach_id", "overwrite", "suffix_counter"},
      require_same_timebase \in BOOLEAN }
  \cup
  { [MergeSpec("data.channels", "dict_union") EXCEPT
       !.require_same_timebase = require_same_timebase,
       !.id_spec = Some(IdSpec(<<"meta.shot">>))] :
      require_same_timebase \in BOOLEAN }
  \cup
  { [MergeSpec("data.channels", "stack") EXCEPT
       !.collision_policy = collision_policy, !.require_same_timebase = require_same_timebase] :
      collision_policy \in {"error", "overwrite"},
      require_same_timebase \in BOOLEAN }

NextMerge == MergeMany(MergeSpecs, MaxMerge, 1)

SpecMerge == InitMerge /\ [][NextMerge]_vars

MergeCall == last.op = "merge_payloads"

\* the identifier merge_payloads computes for a payload
MergeUid(h, root, spec) ==
  compute_identifier(h, root,
    IF spec.id_spec.some THEN spec.id_spec.v
    ELSE IdSpec(<<"meta.__uid__", "meta.file", "meta.shot", "meta.scope">>))

\* the (key, uid) pairs of the inputs' target mappings with their values,
\* payloads in input order, keys in the order of each mapping
RECURSIVE MergePairs(_, _, _)
MergePairs(h, payloads, spec) ==
  IF payloads = <<>> THEN <<>>
  ELSE [i \in 1..Len(Entries(h, Head(payloads), spec.target_path)) |->
          [key |-> Entries(h, Head(payloads), spec.target_path)[i].k,
           value |-> Deref(h, Entries(h, Head(payloads), spec.target_path)[i].v),
           uid |-> MergeUid(h, Head(payloads), spec)]]
       \o MergePairs(h, Tail(payloads), spec)

\* the key a pair is stored under when the keys in taken are present, by
\* the collision policy; "" stands for the failure with MergeCollisionError
ResolvedKey(spec, pair, taken) ==
  IF spec.collision_policy = "error"
  THEN IF pair.key \in taken THEN "" ELSE pair.key
  ELSE IF spec.collision_policy = "attach_id"
  THEN IF (pair.key \o "@" \o pair.uid) \in taken THEN "" ELSE pair.key \o "@" \o pair.uid
  ELSE IF spec.collision_policy = "overwrite" THEN pair.key
  ELSE IF pair.key \notin taken THEN pair.key
  ELSE pair.key \o spec.collision_suffix_separator
         \o ToString(CHOOSE n \in 1..(Cardinality(taken) + 1) :
              /\ (pair.key \o spec.collision_suffix_separator \o ToString(n)) \notin taken
              /\ \A m \in 1..(n - 1) :
                   (pair.key \o spec.collision_suffix_separator \o ToString(m)) \in taken)

\* the pairs resolved one after the other into a mapping (a function from
\* the keys stored to their values); failed says a collision stopped it
RECURSIVE ResolvedPairs(_, _, _)
ResolvedPairs(spec, pairs, merged) ==
  IF pairs = <<>> THEN [failed |-> FALSE, merged |-> merged]
  ELSE IF ResolvedKey(spec, Head(pairs), DOMAIN merged) = ""
  THEN [failed |-> TRUE, merged |-> merged]
  ELSE ResolvedPairs(spec, Tail(pairs),
         [k \in DOMAIN merged \cup {ResolvedKey(spec, Head(pairs), DOMAIN merged)} |->
            IF k = ResolvedKey(spec, Head(pairs), DOMAIN merged) THEN Head(pairs).value
            ELSE merged[k]])

\* the mapping at the target path of the merged payload, as a function
MergedMapping ==
  [k \in KeySet(Entries(heap, last.out, last.params.target_path)) |->
     Deref(heap, GetKey(Entries(heap, last.out, last.params.target_path), k))]

\* nothing but a key collision can stop the merge: the list is not empty,
\* the mode is dict_union, and the timebases agree where that is required
Mergeable ==
  /\ last.args # <<>>
  /\ last.params.merge_mode = "dict_union"
  /\ last.params.require_same_timebase =>
       \A i \in 1..Len(last.args) :
         Deref(last.pre, Get(last.pre, last.args[i], "data.time"))
           = Deref(last.pre, Get(last.pre, last.args[1], "data.time"))

\* C22: merge_payloads resolves each (key, uid) of each input's target
\* mapping by the collision policy: "error" fails with MergeCollisionError
\* on a key already present; "attach_id" stores under key@uid and fails
\* with MergeCollisionError when that is present; "overwrite" keeps the
\* key, the last value winning; "suffix_counter" appends separator + n for
\* n = 1, 2, ... until the key is free.  Under every policy but
\* "overwrite" a successful merge has as many entries as the inputs'
\* target mappings together
C22_CollisionPolicies ==
  (MergeCall /\ Mergeable) =>
    LET want == ResolvedPairs(last.params, MergePairs(last.pre, last.args, last.params), <<>>)
    IN /\ last.err = IF want.failed THEN "MergeCollisionError" ELSE "none"
       /\ want.failed => last.out = None
       /\ ~want.failed =>
            /\ MergedMapping = want.merged
            /\ last.params.collision_policy # "overwrite" =>
                 Len(Entries(heap, last.out, last.params.target_path))
                   = Len(MergePairs(last.pre, last.args, last.params))

\* payloads with the uids 1 and 2 that both hold "A" were merged into the
\* keys "A@1" and "A@2"
C22_Witness ==
  /\ MergeCall /\ last.err = "none"
  /\ last.params.collision_policy = "attach_id"
  /\ Len(last.args) = 2
  /\ KeySet(Entries(last.pre, last.args[1], "data.channels")) = {"A"}
  /\ KeySet(Entries(last.pre, last.args[2], "data.channels")) = {"A"}
  /\ KeySet(Entries(heap, last.out, "data.channels")) = {"A@1", "A@2"}

\* the value at the time path of the i-th input
TimeOfInput(i) == Deref(last.pre, Get(last.pre, last.args[i], last.params.time_path))

\* the inputs whose time axis is not that of the first
Mismatched == { i \in 1..Len(last.args) : TimeOfInput(i) # TimeOfInput(1) }

\* the fold of the inputs before the i-th fails: on a key collision, or on
\* the first key met under a mode other than dict_union
FoldFailsBefore(i) ==
  LET pairs == MergePairs(last.pre, SubSeq(last.args, 1, i - 1), last.params)
  IN \/ ResolvedPairs(last.params, pairs, <<>>).failed
     \/ last.params.merge_mode # "dict_union" /\ pairs # <<>>

RoundSplitSpecs ==
  { [SplitSpec("data.channels", "dict_keys") EXCEPT
       !.id_spec = id_spec, !.attach_id_to_meta_path = attach, !.copy_policy = copy_policy] :
      id_spec \in { NoValue,
                    Some([IdSpec(<<"meta.shot", "meta.scope">>) EXCEPT !.joiner = "-"]) },
      attach \in { "meta.__uid__", "meta.ids.child" },
      copy_policy \in { "shallow", "deep" } }

RoundMergeSpecs ==
  { [MergeSpec("data.channels", "dict_union") EXCEPT
       !.collision_policy = collision_policy, !.require_same_timebase = require_same_timebase] :
      collision_policy \in {"error", "attach_id", "overwrite", "suffix_counter"},
      require_same_timebase \in BOOLEAN }

NextRound == Split(RoundSplitSpecs, 1) \/ MergeChildren(RoundMergeSpecs, 2)

SpecRound == InitSplit /\ [][NextRound]_vars

\* a mapping of the heap as a function from its keys to their values
AsFunction(h, e) == [k \in KeySet(e) |-> Deref(h, GetKey(e, k))]

\* the fields of a payload that are no meta: every top-level field but
\* meta, and the fields of data
NonMeta(h, root) ==
  [top |-> AsFunction(h, SelectSeq(h[root.a].e, LAMBDA x : x.k \notin {"meta", "data"})),
   data |-> AsFunction(h, SelectSeq(Entries(h, root, "data"), LAMBDA x : x.k # "channels")),
   channels |-> AsFunction(h, Entries(h, root, "data.channels"))]

\* a split of a payload on its channels has returned and the merge of all
\* its children, under a policy that keeps the keys, returns in this step
RoundTripStep ==
  /\ SplitCall /\ last.err = "none"
  /\ last'.op = "merge_payloads"
  /\ last'.params.collision_policy \in {"error", "overwrite", "suffix_counter"}

\* the merged payload has the channels and the time axis of the payload
\* split, and differs from it in meta only
Reconstructed ==
  /\ last'.err = "none"
  /\ AsFunction(heap', Entries(heap', last'.out, "data.channels"))
       = AsFunction(heap, Entries(heap, last.args[1], "data.channels"))
  /\ Deref(heap', Get(heap', last'.out, "data.time"))
       = Deref(heap, Get(heap, last.args[1], "data.time"))
  /\ NonMeta(heap', last'.out) = NonMeta(heap, last.args[1])

\* the claim as stated: the round trip reconstructs every payload whose
\* data.channels is a mapping
C24_RoundTripOfAnyMapping ==
  [][RoundTripStep => Reconstructed]_vars

\* C24 (amended): for every payload whose data.channels is a non-empty
\* mapping, splitting it with dict_keys on data.channels and merging all
\* children with dict_union on data.channels under "error", "overwrite" or
\* "suffix_counter" yields a payload with exactly the original channels
\* and the original data.time; only meta fields may differ
C24_RoundTrip ==
  [][(RoundTripStep /\ Entries(heap, last.args[1], "data.channels") # <<>>)
       => Reconstructed]_vars

\* two children were merged back into the channels A and B
C24_Witness ==
  /\ MergeCall /\ clock = 2
  /\ last.err = "none"
  /\ last.params.collision_policy = "suffix_counter"
  /\ Len(last.args) = 2
  /\ KeySet(Entries(heap, last.out, "data.channels")) = {"A", "B"}
  /\ \A i \in 1..2 : Len(Entries(last.pre, last.args[i], "data.channels")) = 1

(***************************************************************************)
(* PayloadStore (models.py): the in-memory registry of imported payloads.  *)
(* self.payloads is a dict from payload id to payload; the state variable  *)
(* store holds its entries in insertion order.  A method's result carries  *)
(* the dict it leaves, the value it returns and the exception it raises.   *)
(***************************************************************************)
StoreResult(payloads, v, err, msg) == [payloads |-> payloads, v |-> v, err |-> err, msg |-> msg]

\* self.payloads.setdefault(payload_id, payload): an existing id keeps its payload
AddKeepingOld(payloads, payload_id, payload) ==
  IF HasKey(payloads, payload_id)
  THEN StoreResult(payloads, None, "none", <<>>)
  ELSE StoreResult(PutKey(payloads, payload_id, payload), None, "none", <<>>)

\* PayloadStore.add: self.payloads[payload_id] = payload
add(payloads, payload_id, payload) ==
  StoreResult(PutKey(payloads, payload_id, payload), None, "none", <<>>)

\* PayloadStore.remove: self.payloads.pop(payload_id, None)
remove(payloads, payload_id) ==
  StoreResult(SelectSeq(payloads, LAMBDA x : x.k # payload_id), None, "none", <<>>)

\* PayloadStore.clear: self.payloads.clear()
clear(payloads) == StoreResult(<<>>, None, "none", <<>>)

\* PayloadStore.ids: self.payloads.keys(), the ids in insertion order
ids(payloads) == StoreResult(payloads, Keys(payloads), "none", <<>>)

\* PayloadStore.get: KeyError("Unknown payload id: ...") for an id that is
\* not in the dict, the payload under the id otherwise
get(payloads, payload_id) ==
  IF ~HasKey(payloads, payload_id)
  THEN StoreResult(payloads, None, "KeyError", <<"Unknown payload id: ", payload_id>>)
  ELSE StoreResult(payloads, GetKey(payloads, payload_id), "none", <<>>)

\* the ids a caller registers payloads under, and the longest sequence of
\* calls made on one registry
PayloadIds == {"a", "b"}
MaxStoreCalls == 4

\* a method of the registry was called and has returned or raised
StoreReturned(op, payload_id, payload, res) ==
  /\ clock < MaxStoreCalls
  /\ store' = res.payloads
  /\ calls' = Append(calls, [op |-> op, id |-> payload_id, payload |-> payload])
  /\ last' = [op |-> op, args |-> <<payload_id, payload>>, params |-> <<>>, err |-> res.err,
              out |-> res.v, pre |-> heap, msg |-> res.msg]
  /\ clock' = clock + 1
  /\ UNCHANGED <<heap, pool, numpy>>

StoreAdd ==
  \E payload_id \in PayloadIds, i \in 1..2 :
    StoreReturned("add", payload_id, pool[i], add(store, payload_id, pool[i]))

StoreRemove ==
  \E payload_id \in PayloadIds :
    StoreReturned("remove", payload_id, None, remove(store, payload_id))

StoreClear == StoreReturned("clear", "", None, clear(store))

StoreIds == StoreReturned("ids", "", None, ids(store))

StoreGet ==
  \E payload_id \in PayloadIds :
    StoreReturned("get", payload_id, None, get(store, payload_id))

InitStore ==
  Start(Ramp(2, 1), <<[k |-> "A", v |-> Samples(2, 1)]>>, NoMeta,
        Ramp(2, 1), <<[k |-> "A", v |-> Samples(2, 0)]>>, NoMeta, FALSE)

NextStore == StoreAdd \/ StoreRemove \/ StoreClear \/ StoreIds \/ StoreGet

SpecStore == InitStore /\ [][NextStore]_vars

\* the calls made before the last one
Earlier == SubSeq(calls, 1, Len(calls) - 1)

\* the positions in a history of the adds under an id that no later remove
\* of the id and no later clear has undone
LiveAdds(history, payload_id) ==
  { i \in 1..Len(history) :
      /\ history[i].op = "add" /\ history[i].id = payload_id
      /\ \A j \in (i + 1)..Len(history) :
           /\ history[j].op # "clear"
           /\ ~(history[j].op = "remove" /\ history[j].id = payload_id) }

Added(history, payload_id) == LiveAdds(history, payload_id) # {}

\* the payload most recently added under an id
MostRecent(history, payload_id) ==
  history[CHOOSE i \in LiveAdds(history, payload_id) :
            \A j \in LiveAdds(history, payload_id) : j <= i].payload

StoreCall(op) == last.op = op /\ calls # <<>>

\* the contract of the registry, the failure of get being the error named
StoreContract(unknown) ==
  /\ StoreCall("get") =>
       IF Added(Earlier, last.args[1])
       THEN /\ last.err = "none"
            /\ last.out = MostRecent(Earlier, last.args[1])
       ELSE /\ last.err = unknown
            /\ \A payload_id \in PayloadIds :
                 /\ HasKey(store, payload_id) <=> Added(Earlier, payload_id)
                 /\ HasKey(store, payload_id) =>
                      GetKey(store, payload_id) = MostRecent(Earlier, payload_id)
  /\ StoreCall("ids") =>
       /\ last.err = "none"
       /\ {last.out[i] : i \in 1..Len(last.out)}
            = {payload_id \in PayloadIds : Added(Earlier, payload_id)}
       /\ \A i, j \in 1..Len(last.out) : last.out[i] = last.out[j] => i = j
  /\ StoreCall("add") =>
       /\ last.err = "none"
       /\ HasKey(store, last.args[1])
       /\ GetKey(store, last.args[1]) = last.args[2]
       /\ Len(SelectSeq(store, LAMBDA x : x.k = last.args[1])) = 1
  /\ (StoreCall("remove") /\ ~Added(Earlier, last.args[1])) =>
       /\ last.err = "none"
       /\ \A payload_id \in PayloadIds :
            /\ HasKey(store, payload_id) <=> Added(Earlier, payload_id)
            /\ HasKey(store, payload_id) =>
                 GetKey(store, payload_id) = MostRecent(Earlier, payload_id)

\* the claim as stated: the failure of get is an UnknownPayloadId
C25_UnknownPayloadId == StoreContract("UnknownPayloadId")

\* C25 (amended): after any sequence of add, remove and clear, get(id)
\* returns the payload most recently added under id if id was added and
\* not removed or cleared since, and otherwise fails with KeyError
\* ("Unknown payload id: <id>") without changing the store; ids() is
\* exactly the set of such ids; add on an existing id replaces its
\* payload; remove of an absent id changes nothing and does not fail
C25_StoreContract ==
  /\ StoreContract("KeyError")
  /\ (StoreCall("get") /\ last.err # "none") => last.msg = <<"Unknown payload id: ", last.args[1]>>

\* get fails on an id whose payload was replaced by a second add and then
\* removed
C25_Witness ==
  /\ StoreCall("get") /\ last.err = "KeyError"
  /\ \E i, j, k \in 1..Len(Earlier) :
       /\ i < j /\ j < k
       /\ Earlier[i].op = "add" /\ Earlier[i].id = last.args[1]
       /\ Earlier[j].op = "add" /\ Earlier[j].id = last.args[1]
       /\ Earlier[j].payload # Earlier[i].payload
       /\ Earlier[k].op = "remove" /\ Earlier[k].id = last.args[1]

(***************************************************************************)
(* Peak shape: one call of detect_candidate_peaks on a trace with pulses   *)
(* of either sign, under both noise estimates, with and without a minimum  *)
(* width, stored regions and inversion.                                    *)
(***************************************************************************)
ShapeLevels == {N(-2), N(0), N(1)}

InitShape ==
  \E trace \in [1..TraceLen -> ShapeLevels] :
    Start(Ramp(TraceLen, 1), <<[k |-> "A", v |-> trace]>>, DictMeta(<<>>),
          Ramp(TraceLen, 1), <<[k |-> "A", v |-> trace]>>, NoMeta, TRUE)

DetectParamsShape ==
  { [DetectCandidatePeaksParams EXCEPT !.noise_method = noise_method,
       !.threshold_sigma = Q(1, 2), !.min_distance_samples = 1,
       !.min_width_samples = min_width_samples, !.store_regions = store_regions,
       !.polarity = polarity] :
      noise_method \in {"rms", "mad"}, min_width_samples \in 1..2,
      store_regions \in BOOLEAN, polarity \in {"preserve", "invert"} }

NextShape == DetectPeaks(DetectParamsShape, 1)

SpecShape == InitShape /\ [][NextShape]_vars

\* the trace of a channel as detection sees it, and whether its sample at
\* the 0-based index idx is over a threshold
Seen(key) == Signed(PolaritySign(last.params.polarity, RawTrace(key)), RawTrace(key))
Over(y, threshold, idx) == GtFloat(y[idx + 1], threshold)

\* [start, end) is a maximal run of samples of y over the threshold
MaximalRun(y, threshold, start, end) ==
  /\ 0 <= start /\ start < end /\ end <= Len(y)
  /\ \A k \in start..(end - 1) : Over(y, threshold, k)
  /\ start = 0 \/ ~Over(y, threshold, start - 1)
  /\ end = Len(y) \/ ~Over(y, threshold, end)

\* the j-th peak of the record r of a channel is well-formed in [start, end)
WellFormed(y, r, j, start, end) ==
  /\ MaximalRun(y, r.threshold, start, end)
  /\ start <= r.i[j] /\ r.i[j] < end
  /\ end - start >= last.params.min_width_samples
  /\ \A k \in start..(end - 1) : RLe(y[k + 1], y[r.i[j] + 1])
  /\ \A k \in start..(r.i[j] - 1) : RLt(y[k + 1], y[r.i[j] + 1])
  /\ r.amp[j] = y[r.i[j] + 1]
  /\ GtFloat(r.amp[j], r.threshold)
  /\ r.t[j] = InTime[r.i[j] + 1]
  /\ last.params.store_regions => r.region_start[j] = start /\ r.region_end[j] = end

\* C26: every peak reported for a channel lies in a maximal run of samples
\* strictly over the threshold that has at least min_width_samples
\* samples, is the first maximum of the run, has the transformed sample as
\* its amplitude (over the threshold) and the time of its index; a noise
\* estimate that is <= 0 or NaN makes the threshold +infinity and no peak
\* is reported
C26_PeaksWellFormed ==
  DetectReturned =>
    \A c \in 1..Len(ByChannel) :
      /\ \A j \in 1..Len(ByChannel[c].v.r.i) :
           \E start \in 0..Len(Seen(ByChannel[c].k)), end \in 0..Len(Seen(ByChannel[c].k)) :
             WellFormed(Seen(ByChannel[c].k), ByChannel[c].v.r, j, start, end)
      /\ (ByChannel[c].v.r.noise.k = "nan" \/ SgnF(ByChannel[c].v.r.noise) <= 0) =>
           /\ ByChannel[c].v.r.threshold = Inf
           /\ ByChannel[c].v.r.i = <<>>

\* a run of two equal samples at the end of the inverted trace is reported
\* at its first sample, with the region ending at the array length
C26_Witness ==
  /\ DetectReturned
  /\ last.params.polarity = "invert" /\ last.params.min_width_samples = 2
  /\ last.params.store_regions
  /\ RawTrace("A") = <<N(0), N(1), N(0), N(-2), N(-2)>>
  /\ GetKey(ByChannel, "A").r.i = <<3>>
  /\ GetKey(ByChannel, "A").r.amp = <<N(2)>>
  /\ GetKey(ByChannel, "A").r.region_end = <<5>>

(***************************************************************************)
(* Cap and saturation: one call of detect_candidate_peaks with and without *)
(* a cap on the number of peaks and with every combination of              *)
(* reject_saturated and saturation_level.                                  *)
(***************************************************************************)
InitCap ==
  \E trace \in [1..TraceLen -> Levels] :
    Start(Ramp(TraceLen, 1), <<[k |-> "A", v |-> trace]>>, DictMeta(<<>>),
          Ramp(TraceLen, 1), <<[k |-> "A", v |-> trace]>>, NoMeta, TRUE)

DetectParamsCap ==
  { [DetectCandidatePeaksParams EXCEPT !.noise_method = "rms",
       !.threshold_sigma = Q(1, 2), !.min_distance_samples = 1,
       !.max_peaks_per_channel = max_peaks_per_channel,
       !.reject_saturated = reject_saturated, !.saturation_level = saturation_level] :
      max_peaks_per_channel \in {NoValue, Some(IntV(1))},
      reject_saturated \in BOOLEAN, saturation_level \in {NoValue, Some(N(2))} }
  \cup
  { [DetectCandidatePeaksParams EXCEPT !.noise_method = "rms",
       !.threshold_sigma = Q(1, 2), !.min_distance_samples = 1,
       !.max_peaks_per_channel = max_peaks_per_channel,
       !.reject_saturated = saturated.reject, !.saturation_level = saturated.level] :
      max_peaks_per_channel \in {Some(IntV(0)), Some(IntV(2))},
      saturated \in {[reject |-> FALSE, level |-> NoValue], [reject |-> TRUE, level |-> Some(N(2))]} }
  \cup
  { [DetectCandidatePeaksParams EXCEPT !.noise_method = "rms",
       !.threshold_sigma = Q(1, 2), !.min_distance_samples = 3,
       !.max_peaks_per_channel = Some(IntV(1)),
       !.reject_saturated = TRUE, !.saturation_level = Some(N(2))] }

NextCap == DetectPeaks(DetectParamsCap, 1)

SpecCap == InitCap /\ [][NextCap]_vars

\* the record of a channel under the parameters of the call changed as given
RecordUnder(params, key) == ProcessChannel(numpy, params, InTime, key, RawTrace(key)).record

\* the peaks of a channel that survived the dead time, and those of them
\* that survived the saturation filter as well
AfterDeadTime(key) ==
  RecordUnder([last.params EXCEPT !.max_peaks_per_channel = NoValue,
                                  !.reject_saturated = FALSE], key)
Survivors(key) == RecordUnder([last.params EXCEPT !.max_peaks_per_channel = NoValue], key)

\* the columns of a record, one entry per peak
Columns(r) == DOMAIN r \ {"noise", "threshold"}

\* the peak at position j of the record r is the peak at position k of u
SamePeak(r, j, u, k) == \A f \in Columns(r) : r[f][j] = u[f][k]

\* the peaks of r are peaks of u, and each peak of u that is none of r has
\* at most the amplitude of every peak of r
HighestOf(r, u) ==
  /\ \A j \in 1..Len(r.i) : \E k \in 1..Len(u.i) : SamePeak(r, j, u, k)
  /\ \A k \in 1..Len(u.i) :
       (\A j \in 1..Len(r.i) : r.i[j] # u.i[k]) =>
         \A j \in 1..Len(r.i) : RLe(u.amp[k], r.amp[j])

SaturationFilters == last.params.reject_saturated /\ last.params.saturation_level.some

\* C27: the arrays of a channel have one length and are ordered by
\* strictly increasing sample index; with max_peaks_per_channel = N at
\* most N peaks are reported, the N highest in amplitude of those that
\* survived the dead time and the saturation filter; with reject_saturated
\* and a saturation_level every reported peak is below the level, and
\* otherwise no peak is dropped for saturation
C27_OrderedAndCapped ==
  DetectReturned =>
    \A c \in 1..Len(ByChannel) :
      /\ \A f \in Columns(ByChannel[c].v.r) : Len(ByChannel[c].v.r[f]) = Len(ByChannel[c].v.r.i)
      /\ {"i", "t", "amp"} \subseteq Columns(ByChannel[c].v.r)
      /\ last.params.store_snr => "snr" \in Columns(ByChannel[c].v.r)
      /\ last.params.store_regions =>
           {"region_start", "region_end"} \subseteq Columns(ByChannel[c].v.r)
      /\ \A j \in 1..(Len(ByChannel[c].v.r.i) - 1) :
           ByChannel[c].v.r.i[j] < ByChannel[c].v.r.i[j + 1]
      /\ IF last.params.max_peaks_per_channel.some
         THEN /\ Len(ByChannel[c].v.r.i)
                   = Min(last.params.max_peaks_per_channel.v.n, Len(Survivors(ByChannel[c].k).i))
              /\ HighestOf(ByChannel[c].v.r, Survivors(ByChannel[c].k))
         ELSE ByChannel[c].v.r = Survivors(ByChannel[c].k)
      /\ IF SaturationFilters
         THEN /\ \A j \in 1..Len(ByChannel[c].v.r.i) :
                   RLt(ByChannel[c].v.r.amp[j], last.params.saturation_level.v)
              /\ \A k \in 1..Len(AfterDeadTime(ByChannel[c].k).i) :
                   RLt(AfterDeadTime(ByChannel[c].k).amp[k], last.params.saturation_level.v)
                     => \E j \in 1..Len(Survivors(ByChannel[c].k).i) :
                          SamePeak(Survivors(ByChannel[c].k), j, AfterDeadTime(ByChannel[c].k), k)
         ELSE Survivors(ByChannel[c].k) = AfterDeadTime(ByChannel[c].k)

\* three pulses, the highest saturated: of the two that are left the cap
\* of one keeps the first
C27_Witness ==
  /\ DetectReturned
  /\ last.params.max_peaks_per_channel = Some(IntV(1))
  /\ SaturationFilters /\ last.params.min_distance_samples = 1
  /\ RawTrace("A") = <<N(1), N(0), N(3), N(0), N(1)>>
  /\ AfterDeadTime("A").i = <<0, 2, 4>>
  /\ Survivors("A").i = <<0, 4>>
  /\ GetKey(ByChannel, "A").r.i = <<0>>

(***************************************************************************)
(* Provenance of a merge.                                                  *)
(***************************************************************************)
\* the provenance records expected for pairs resolved one after the other,
\* the keys in taken being present
RECURSIVE ExpectedSources(_, _, _)
ExpectedSources(spec, pairs, taken) ==
  IF pairs = <<>> THEN <<>>
  ELSE <<[uid |-> Head(pairs).uid, original_key |-> Head(pairs).key,
          final_key |-> ResolvedKey(spec, Head(pairs), taken)]>>
       \o ExpectedSources(spec, Tail(pairs), taken \cup {ResolvedKey(spec, Head(pairs), taken)})

\* the provenance list of the merged payload, as records
Sources ==
  [i \in 1..Len(Elements(heap, last.out, last.params.source_map_path)) |->
     Elements(heap, last.out, last.params.source_map_path)[i].r]

\* the fields of a payload but the mapping at data.channels and the list at
\* meta.__sources__
OtherFields(h, root) ==
  [top |-> AsFunction(h, SelectSeq(h[root.a].e, LAMBDA x : x.k \notin {"meta", "data"})),
   data |-> AsFunction(h, SelectSeq(Entries(h, root, "data"), LAMBDA x : x.k # "channels")),
   meta |-> AsFunction(h, SelectSeq(Entries(h, root, "meta"), LAMBDA x : x.k # "__sources__"))]

\* C28: a merge that returns has written at source_map_path a list with
\* exactly one record {uid, original_key, final_key} per (input payload,
\* key) pair folded, payloads in input order and keys in the order of
\* each mapping, under every collision policy; the uid is the identifier
\* of the pair's payload and the final_key the key its value was stored
\* under; every other field equals that of the first input payload and is
\* a copy of it
C28_ProvenancePerPair ==
  (MergeCall /\ last.err = "none") =>
    /\ IsList(heap, Get(heap, last.out, last.params.source_map_path))
    /\ Sources = ExpectedSources(last.params, MergePairs(last.pre, last.args, last.params), {})
    /\ \A i \in 1..Len(Sources) : Sources[i].final_key \in DOMAIN MergedMapping
    /\ OtherFields(heap, last.out) = OtherFields(last.pre, last.args[1])
    /\ Reach(heap, last.out) \cap Reach(last.pre, last.args[1])
         \subseteq UNION { Reach(last.pre, Get(last.pre, last.args[i], last.params.target_path)) :
                           i \in 1..Len(last.args) }

\* three payloads with the channel A merged under "overwrite": three
\* records for the one key that is left
C28_Witness ==
  /\ MergeCall /\ last.err = "none"
  /\ last.params.collision_policy = "overwrite"
  /\ Len(last.args) = 3
  /\ Len(Sources) >= 3
  /\ \E i, j \in 1..Len(Sources) :
       i < j /\ Sources[i].final_key = Sources[j].final_key /\ Sources[i].uid # Sources[j].uid

(***************************************************************************)
(* Merge modes other than dict_union.                                      *)
(***************************************************************************)
\* C29: for every non-empty list of input payloads, a merge whose
\* merge_mode is not "dict_union" fails with SpecError and returns no
\* merged payload, whatever the target mappings hold (all of them empty
\* included) and whatever the collision policy
C29_UnsupportedModeFails ==
  (MergeCall /\ last.args # <<>> /\ last.params.merge_mode # "dict_union") =>
    /\ last.err = "SpecError"
    /\ last.out = None

(***************************************************************************)
(* Copy policy of a split.                                                 *)
(***************************************************************************)
\* the mappings the tokens pass through from v, the one that holds the
\* last token included
RECURSIVE Along(_, _, _)
Along(h, v, tokens) ==
  IF tokens = <<>> \/ ~IsDict(h, v) THEN {}
  ELSE {v.a} \cup (IF HasKey(h[v.a].e, Head(tokens))
                   THEN Along(h, GetKey(h[v.a].e, Head(tokens)), Tail(tokens))
                   ELSE {})

\* the containers of the parent off the target path and off the id path
OffPaths(h, root, spec) ==
  Reach(h, root)
    \ (Along(h, root, _parse_path(TargetPathOf(spec)).tokens)
       \cup Reach(h, Get(h, root, TargetPathOf(spec)))
       \cup Along(h, root, _parse_path(spec.attach_id_to_meta_path).tokens)
       \cup Reach(h, Get(h, root, spec.attach_id_to_meta_path)))

\* the children of the split
Children == { heap[last.out.a].e[j].v : j \in 1..Len(heap[last.out.a].e) }

\* no child of a deep split holds an object of the parent
DeepSharesNothing ==
  \A child \in Children : Reach(heap, child) \cap Reach(last.pre, last.args[1]) = {}

\* every child of a shallow split holds the parent's containers off the
\* target path and off the id path
ShallowSharesOffPaths ==
  \A child \in Children : OffPaths(last.pre, last.args[1], last.params) \subseteq Reach(heap, child)

\* C30: with copy_policy "deep" no container reachable from a child, the
\* item value placed at the target path included, is shared with the
\* parent payload; with copy_policy "shallow" the nested containers off
\* the target path and off the id path are shared with the parent
C30_CopyPolicyRespected ==
  (SplitCall /\ last.err = "none") =>
    IF last.params.copy_policy = "deep" THEN DeepSharesNothing ELSE ShallowSharesOffPaths

====
